---- MODULE Spec2Model ----
(***************************************************************************)
(* A model of ascii-map: the in-memory LRU of decoded tiles                *)
(* (maps/ascii_map.py), the disk cache and the fetch port (maps/tiles.py), *)
(* the background TileLoader (maps/tiles.py) and the render pipeline       *)
(* (maps/ascii_map.py, maps/render.py).                                    *)
(*                                                                         *)
(* Callers of get_decoded_tile are the threads of the HTTP viewer          *)
(* (webapp.py, ThreadingHTTPServer) or the single thread of the terminal   *)
(* UI (main.py).  Under the interpreter lock each dictionary operation and *)
(* each system call is one atomic step; a thread may be preempted between  *)
(* any two of them.                                                        *)
(***************************************************************************)
EXTENDS Integers, Sequences, FiniteSets, TLC

\* ------------------------------------------------------------------ bounds
\* Capacity of the LRU.  The source sets 512 (ascii_map.py:14); the model
\* keeps the same code with a small capacity so that overflow happens.
MAX_TILE_CACHE == 2
\* Number of distinct tile keys the callers ask for.
NumKeys == 3
\* Number of concurrent callers of get_decoded_tile (HTTP handler threads).
NumThreads == 2
\* Number of get_decoded_tile calls in one run.
MaxCalls == 4
\* Number of write chunks of a complete tile file.
FullLen == 2
\* Number of TileLoader requests in one run.
MaxRequests == 3

\* ascii_map.py:10
MAX_ZOOM == 14
\* A tile key is (zoom, tile_x, tile_y): ascii_map.py:84.
Key(i) == <<MAX_ZOOM, i, 0>>
Keys == {Key(i) : i \in 1..NumKeys}
\* The keys of the tiles under the rendered views (Requests below).
RenderKeys == {<<13, 1, 1>>, <<14, 1, 1>>, <<14, 2, 1>>, <<0, 0, 0>>,
               <<1, 0, 0>>, <<1, 0, 1>>, <<1, 1, 0>>, <<1, 1, 1>>,
               <<14, 0, 1>>, <<14, 3, 1>>}
DiskKeys == Keys \cup RenderKeys
Threads == 1..NumThreads
\* Number of pool workers of the TileLoader (4 in the source, tiles.py:74).
NumWorkers == 2
Workers == (NumThreads + 1)..(NumThreads + NumWorkers)
Procs == Threads \cup Workers

\* ------------------------------------------------------------------ values
\* Bytes: a kind of content and how many chunks of it there are.
NoFile == [kind |-> "nofile", len |-> 0]
None == [kind |-> "None", len |-> 0]
Bytes(kind, len) == [kind |-> kind, len |-> len]
EMPTY == "{}"
\* Tiles the decoder accepts: a city tile (its layers are CityTile below) and
\* a tile whose water layer declares an extent of 0.
TileNames == {"city", "zeroext"}
\* What the port can answer with status 200: tile bytes the decoder accepts
\* and bytes on which it raises.
PortContents == {"city", "bad"}

Exists(f) == f.kind # "nofile"
\* Python truthiness of `raw` (None and b"" are falsy).
Truthy(raw) == raw.kind # "None" /\ raw.len > 0

\* mvt_decoder.decode: the layer map of complete tile bytes, an exception on
\* malformed bytes.  A strict prefix of a tile is malformed.
decode(raw) ==
  IF raw.kind \in TileNames /\ raw.len = FullLen
    THEN [raised |-> FALSE, val |-> raw.kind]
    ELSE [raised |-> TRUE, val |-> EMPTY]

\* tiles.decode_tile
decode_tile(raw) ==
  IF ~Truthy(raw) THEN EMPTY
  ELSE IF decode(raw).raised THEN EMPTY
  ELSE decode(raw).val

\* ------------------------------------------------------- OrderedDict model
\* The dictionary is the sequence of its items, oldest first.
CacheKeys(c) == {c[i].key : i \in DOMAIN c}
Has(c, k) == k \in CacheKeys(c)
IndexOf(c, k) == CHOOSE i \in DOMAIN c : c[i].key = k
Lookup(c, k) == c[IndexOf(c, k)].val
Without(c, k) == SelectSeq(c, LAMBDA e : e.key # k)

\* _tile_cache[key] = value : a new key goes last, an old key keeps its place
setitem(c, k, v) ==
  IF Has(c, k)
    THEN [i \in DOMAIN c |-> IF c[i].key = k THEN [key |-> k, val |-> v] ELSE c[i]]
    ELSE Append(c, [key |-> k, val |-> v])

\* (mutant) recency is not updated
move_to_end_noop(c, k) == c

\* _tile_cache.move_to_end(key), key present
move_to_end(c, k) == Append(Without(c, k), c[IndexOf(c, k)])

\* _tile_cache.popitem(last=False)
popitem_first(c) == Tail(c)

\* The reference order of use: k becomes the most recently used key.
Touch(u, k) == Append(SelectSeq(u, LAMBDA e : e # k), k)

VARIABLES
  cache,     \* _tile_cache
  disk,      \* disk[k]: the cache file of key k
  pc,        \* pc[p]: where process p is in get_decoded_tile / fetch_tile
  tkey,      \* tkey[p]: the key of p's call
  raw,       \* raw[p]: the bytes p holds
  wpos,      \* wpos[p]: offset of p's open file handle
  linked,    \* linked[p]: p's open file is still the one at the path
  rv,        \* rv[p]: what p's last call returned ("raised" for an exception)
  hit,       \* hit[p]: p's call found its key by the membership test
  futures,   \* TileLoader.futures
  loaded,    \* TileLoader.loaded
  queue,     \* work items submitted to the executor and not yet started
  wlive,     \* wlive[w]: the future of w's task is still the one in `futures`
  \* history
  used,      \* keys in the order of their last get_decoded_tile call
  calls,     \* number of get_decoded_tile calls started
  inserts,   \* inserts[k]: executions of `_tile_cache[key] = value` for k
  evicts,    \* evicts[k]: evictions of k
  fetched,   \* fetched[k]: fetch_tile calls for k
  zeroRead,  \* keys whose zero-byte file was read and handed to decode_tile
  reqs,      \* number of request_tile calls
  \* render_ascii
  rpc,       \* where the render is ("off" when no render runs)
  rq,        \* the arguments of the call
  rs,        \* its locals: clamped size and view, loop position, candidates
  buffer,    \* fb.buffer
  ztop,      \* history: per cell, the latest layer that wrote it and the
             \* glyphs that layer wrote there
  result,    \* what render_ascii returned
  \* the viewers (webapp.py render_payload, main.py run_viewer)
  view,      \* the view a viewer holds between two requests, and what the
             \* last call of normalize_view / pan / render_ascii computed
  \* one function called alone
  call       \* its name, its arguments and what it returned

vars == <<cache, disk, pc, tkey, raw, wpos, linked, rv, hit, futures, loaded,
          queue, wlive, used, calls, inserts, evicts, fetched, zeroRead, reqs,
          rpc, rq, rs, buffer, ztop, result, view, call>>

cacheVars == <<cache, used, calls, inserts, evicts>>
loaderVars == <<futures, loaded, queue, wlive, reqs>>
fileVars == <<disk, wpos, linked>>
renderVars == <<rpc, rq, rs, buffer, ztop, result>>
\* State of the specifications that follow one function on its own.
pureVars == <<view, call>>
procVars == <<pc, tkey, raw, wpos, linked, rv, hit>>
histVars == <<used, calls, inserts, evicts, fetched, zeroRead>>

\* Files a previous run can have left: none, a zero-byte file (a fetch that
\* died after creating it), a complete tile, complete undecodable bytes.
InitFiles == {NoFile, Bytes("city", 0), Bytes("city", FullLen), Bytes("bad", FullLen)}

InitCommon ==
  /\ cache = <<>>
  /\ pc = [p \in Procs |-> "idle"]
  /\ tkey = [p \in Procs |-> Key(1)]
  /\ raw = [p \in Procs |-> None]
  /\ wpos = [p \in Procs |-> 0]
  /\ linked = [p \in Procs |-> FALSE]
  /\ rv = [p \in Procs |-> "none"]
  /\ hit = [p \in Procs |-> FALSE]
  /\ futures = [k \in Keys |-> "none"]
  /\ loaded = [k \in Keys |-> "none"]
  /\ queue = <<>>
  /\ wlive = [p \in Procs |-> FALSE]
  /\ used = <<>>
  /\ calls = 0
  /\ inserts = [k \in Keys |-> 0]
  /\ evicts = [k \in Keys |-> 0]
  /\ fetched = [k \in Keys |-> 0]
  /\ zeroRead = {}
  /\ reqs = 0

\* No render is running.
RenderOff ==
  /\ rpc = "off"
  /\ rq = <<>>
  /\ rs = <<>>
  /\ buffer = <<>>
  /\ ztop = <<>>
  /\ result = <<>>

\* No viewer is running and no function is called alone.
PureOff ==
  /\ view = <<>>
  /\ call = <<>>

\* The cache directory: files for the keys in `files`, nothing elsewhere.
Dir(files) == [k \in DiskKeys |-> IF k \in DOMAIN files THEN files[k] ELSE NoFile]

Init ==
  /\ InitCommon
  /\ RenderOff
  /\ PureOff
  /\ \E files \in [Keys -> InitFiles] : disk = Dir(files)

\* The viewer starts on an empty cache directory.
InitWeb ==
  /\ InitCommon
  /\ RenderOff
  /\ PureOff
  /\ disk = Dir(<<>>)

\* The loader starts on a cache directory with missing and zero-byte files.
InitLoader ==
  /\ InitCommon
  /\ RenderOff
  /\ PureOff
  /\ \E files \in [Keys -> {NoFile, Bytes("city", 0)}] : disk = Dir(files)

\* ------------------------------------------------------ get_decoded_tile
\* An exception that nothing catches ends the call of a handler thread; in a
\* pool worker it becomes the result of the task's future.
Raised(p) == IF p \in Threads THEN "idle" ELSE "fd_decode"
\* fetch_tile returns to get_decoded_tile (ascii_map.py:89) or to
\* TileLoader._fetch_and_decode (tiles.py:100).
Return(p) == IF p \in Threads THEN "put_set" ELSE "fd_decode"

\* ascii_map.py:84-85, the membership test
Call(p, k) ==
  /\ pc[p] = "idle"
  /\ calls < MaxCalls
  /\ calls' = calls + 1
  /\ used' = Touch(used, k)
  /\ tkey' = [tkey EXCEPT ![p] = k]
  /\ hit' = [hit EXCEPT ![p] = Has(cache, k)]
  /\ rv' = [rv EXCEPT ![p] = "none"]
  /\ raw' = [raw EXCEPT ![p] = None]
  /\ pc' = [pc EXCEPT ![p] = IF Has(cache, k) THEN "gd_move" ELSE "ft_exists"]
  /\ UNCHANGED <<cache, inserts, evicts, fileVars, loaderVars, renderVars, pureVars, fetched, zeroRead>>

\* ascii_map.py:86, KeyError when the key is gone
GdMove(p) ==
  /\ pc[p] = "gd_move"
  /\ IF Has(cache, tkey[p])
       THEN /\ cache' = move_to_end(cache, tkey[p])
            /\ pc' = [pc EXCEPT ![p] = "gd_read"]
            /\ rv' = rv
       ELSE /\ cache' = cache
            /\ pc' = [pc EXCEPT ![p] = "idle"]
            /\ rv' = [rv EXCEPT ![p] = "raised"]
  /\ UNCHANGED <<used, calls, inserts, evicts, fileVars, tkey, raw, hit,
                 loaderVars, renderVars, pureVars, fetched, zeroRead>>

\* ascii_map.py:87, KeyError when the key is gone
GdRead(p) ==
  /\ pc[p] = "gd_read"
  /\ pc' = [pc EXCEPT ![p] = "idle"]
  /\ rv' = [rv EXCEPT ![p] =
              IF Has(cache, tkey[p]) THEN Lookup(cache, tkey[p]) ELSE "raised"]
  /\ UNCHANGED <<cacheVars, fileVars, tkey, raw, hit, loaderVars, renderVars, pureVars, fetched, zeroRead>>

\* (mutant) an empty result is not cached
PutSetSkipEmpty(p) ==
  /\ pc[p] = "put_set"
  /\ cache' = IF decode_tile(raw[p]) = EMPTY THEN cache
                ELSE setitem(cache, tkey[p], decode_tile(raw[p]))
  /\ inserts' = [inserts EXCEPT ![tkey[p]] = @ + 1]
  /\ pc' = [pc EXCEPT ![p] = IF decode_tile(raw[p]) = EMPTY THEN "put_check" ELSE "put_move"]
  /\ UNCHANGED <<used, calls, evicts, fileVars, tkey, raw, rv, hit, loaderVars, renderVars, pureVars,
                 fetched, zeroRead>>

\* ascii_map.py:90-91 and 73: decode, then `_tile_cache[key] = value`
PutSet(p) ==
  /\ pc[p] = "put_set"
  /\ cache' = setitem(cache, tkey[p], decode_tile(raw[p]))
  /\ inserts' = [inserts EXCEPT ![tkey[p]] = @ + 1]
  /\ pc' = [pc EXCEPT ![p] = "put_move"]
  /\ UNCHANGED <<used, calls, evicts, fileVars, tkey, raw, rv, hit, loaderVars, renderVars, pureVars,
                 fetched, zeroRead>>

\* ascii_map.py:74, KeyError when the key is gone
PutMove(p) ==
  /\ pc[p] = "put_move"
  /\ IF Has(cache, tkey[p])
       THEN /\ cache' = move_to_end(cache, tkey[p])
            /\ pc' = [pc EXCEPT ![p] = "put_check"]
            /\ rv' = rv
       ELSE /\ cache' = cache
            /\ pc' = [pc EXCEPT ![p] = "idle"]
            /\ rv' = [rv EXCEPT ![p] = "raised"]
  /\ UNCHANGED <<used, calls, inserts, evicts, fileVars, tkey, raw, hit,
                 loaderVars, renderVars, pureVars, fetched, zeroRead>>

\* (mutant) the capacity test off by one
OverfullOffByOne(c) == Len(c) > MAX_TILE_CACHE + 1

\* ascii_map.py:75
Overfull(c) == Len(c) > MAX_TILE_CACHE

\* ascii_map.py:75, and the return of line 92 when there is nothing to evict
PutCheck(p) ==
  /\ pc[p] = "put_check"
  /\ IF Overfull(cache)
       THEN /\ pc' = [pc EXCEPT ![p] = "put_pop"]
            /\ rv' = rv
       ELSE /\ pc' = [pc EXCEPT ![p] = "idle"]
            /\ rv' = [rv EXCEPT ![p] = decode_tile(raw[p])]
  /\ UNCHANGED <<cacheVars, fileVars, tkey, raw, hit, loaderVars, renderVars, pureVars, fetched, zeroRead>>

\* ascii_map.py:76 and the return of line 92
PutPop(p) ==
  /\ pc[p] = "put_pop"
  /\ pc' = [pc EXCEPT ![p] = "idle"]
  /\ IF cache = <<>>
       THEN /\ rv' = [rv EXCEPT ![p] = "raised"]
            /\ UNCHANGED <<cache, evicts>>
       ELSE /\ rv' = [rv EXCEPT ![p] = decode_tile(raw[p])]
            /\ cache' = popitem_first(cache)
            /\ evicts' = [evicts EXCEPT ![Head(cache).key] = @ + 1]
  /\ UNCHANGED <<used, calls, inserts, fileVars, tkey, raw, hit, loaderVars, renderVars, pureVars,
                 fetched, zeroRead>>

\* ------------------------------------------------------------ fetch_tile
\* tiles.py:22-24
FtExists(p) ==
  /\ pc[p] = "ft_exists"
  /\ fetched' = [fetched EXCEPT ![tkey[p]] = @ + 1]
  /\ pc' = [pc EXCEPT ![p] = IF Exists(disk[tkey[p]]) THEN "ft_size" ELSE "ft_get"]
  /\ UNCHANGED <<cacheVars, fileVars, tkey, raw, rv, hit, loaderVars, renderVars, pureVars, zeroRead>>

\* tiles.py:26, os.path.getsize raises when the file is gone
FtSize(p) ==
  /\ pc[p] = "ft_size"
  /\ IF ~Exists(disk[tkey[p]])
       THEN /\ pc' = [pc EXCEPT ![p] = Raised(p)]
            /\ rv' = [rv EXCEPT ![p] = "raised"]
       ELSE /\ pc' = [pc EXCEPT ![p] =
                        IF disk[tkey[p]].len = 0 THEN "ft_remove" ELSE "ft_read"]
            /\ rv' = rv
  /\ UNCHANGED <<cacheVars, fileVars, tkey, raw, hit, loaderVars, renderVars, pureVars, fetched, zeroRead>>

\* tiles.py:27-30, os.remove unlinks whatever is at the path now; a writer
\* that has the file open keeps writing to the unlinked file
FtRemove(p) ==
  /\ pc[p] = "ft_remove"
  /\ disk' = [disk EXCEPT ![tkey[p]] = NoFile]
  /\ linked' = [q \in Procs |-> linked[q] /\ tkey[q] # tkey[p]]
  /\ pc' = [pc EXCEPT ![p] = "ft_get"]
  /\ UNCHANGED <<cacheVars, wpos, tkey, raw, rv, hit, loaderVars, renderVars, pureVars, fetched, zeroRead>>

\* tiles.py:32-33, open raises when the file is gone; read returns what the
\* file holds now
FtRead(p) ==
  /\ pc[p] = "ft_read"
  /\ IF ~Exists(disk[tkey[p]])
       THEN /\ pc' = [pc EXCEPT ![p] = Raised(p)]
            /\ rv' = [rv EXCEPT ![p] = "raised"]
            /\ UNCHANGED <<raw, zeroRead>>
       ELSE /\ pc' = [pc EXCEPT ![p] = Return(p)]
            /\ rv' = rv
            /\ raw' = [raw EXCEPT ![p] = disk[tkey[p]]]
            /\ zeroRead' = IF disk[tkey[p]].len = 0
                             THEN zeroRead \cup {tkey[p]} ELSE zeroRead
  /\ UNCHANGED <<cacheVars, fileVars, tkey, hit, loaderVars, renderVars, pureVars, fetched>>

\* tiles.py:39-44 and 50-56: the port.  Status 200 with a body gives the
\* bytes; a non-200 status, an empty body or an exception gives None.
FtGet(p) ==
  /\ pc[p] = "ft_get"
  /\ \E resp \in {None} \cup {Bytes(c, FullLen) : c \in PortContents} :
       /\ raw' = [raw EXCEPT ![p] = resp]
       /\ IF resp = None
            THEN /\ pc' = [pc EXCEPT ![p] = Return(p)]
            ELSE /\ pc' = [pc EXCEPT ![p] = "ft_openw"]
  /\ UNCHANGED <<cacheVars, fileVars, tkey, rv, hit, loaderVars, renderVars, pureVars, fetched, zeroRead>>

\* tiles.py:46-47: makedirs and open(path, "wb") create the file or truncate
\* it; an OSError is caught at line 52 and fetch_tile returns None
FtOpenW(p) ==
  /\ pc[p] = "ft_openw"
  /\ \E ok \in BOOLEAN :
       IF ok
         THEN /\ disk' = [disk EXCEPT ![tkey[p]] = Bytes(raw[p].kind, 0)]
              /\ wpos' = [wpos EXCEPT ![p] = 0]
              /\ linked' = [linked EXCEPT ![p] = TRUE]
              /\ pc' = [pc EXCEPT ![p] = "ft_write"]
              /\ raw' = raw
         ELSE /\ raw' = [raw EXCEPT ![p] = None]
              /\ pc' = [pc EXCEPT ![p] = Return(p)]
              /\ UNCHANGED fileVars
  /\ UNCHANGED <<cacheVars, tkey, rv, hit, loaderVars, renderVars, pureVars, fetched, zeroRead>>

\* What a write of one chunk of `kind` at offset `pos` leaves in file f: a
\* write past the end leaves a hole, a write over other bytes mixes them.
WriteChunk(f, kind, pos) ==
  Bytes(IF pos > f.len \/ (f.len > 0 /\ f.kind # kind) THEN "bad" ELSE kind,
        IF pos + 1 > f.len THEN pos + 1 ELSE f.len)

\* tiles.py:48-49: f.write(resp.content), chunk by chunk, then the return
FtWrite(p) ==
  /\ pc[p] = "ft_write"
  /\ disk' = IF linked[p]
               THEN [disk EXCEPT ![tkey[p]] = WriteChunk(@, raw[p].kind, wpos[p])]
               ELSE disk
  /\ wpos' = [wpos EXCEPT ![p] = @ + 1]
  /\ IF wpos[p] + 1 = FullLen
       THEN /\ pc' = [pc EXCEPT ![p] = Return(p)]
            /\ linked' = [linked EXCEPT ![p] = FALSE]
       ELSE UNCHANGED <<pc, linked>>
  /\ UNCHANGED <<cacheVars, tkey, raw, rv, hit, loaderVars, renderVars, pureVars, fetched, zeroRead>>

FetchStep(p) ==
  \/ FtExists(p)
  \/ FtSize(p)
  \/ FtRemove(p)
  \/ FtRead(p)
  \/ FtGet(p)
  \/ FtOpenW(p)
  \/ FtWrite(p)

CacheStep(p) ==
  \/ GdMove(p)
  \/ GdRead(p)
  \/ PutSet(p)
  \/ PutMove(p)
  \/ PutCheck(p)
  \/ PutPop(p)

\* The terminal UI (main.py): one thread calls get_decoded_tile.
NextSeq ==
  \/ \E k \in Keys : Call(1, k)
  \/ CacheStep(1)
  \/ FetchStep(1)

\* The HTTP viewer (webapp.py:396-399): one thread per request.
NextWeb ==
  \E p \in Threads :
    \/ \E k \in Keys : Call(p, k)
    \/ CacheStep(p)
    \/ FetchStep(p)

Spec == Init /\ [][NextSeq]_vars
SpecWeb == InitWeb /\ [][NextWeb]_vars

\* ------------------------------------------------------------ TileLoader
Done(f) == f \notin {"none", "pending"}

\* (mutant) a key that is being fetched is submitted again
RequestTileAgain(k) ==
  /\ reqs < MaxRequests
  /\ reqs' = reqs + 1
  /\ IF loaded[k] # "none"
       THEN UNCHANGED <<loaded, futures, queue, zeroRead>>
       ELSE IF Exists(disk[k])
         THEN /\ loaded' = [loaded EXCEPT ![k] = decode_tile(disk[k])]
              /\ zeroRead' = IF disk[k].len = 0 THEN zeroRead \cup {k} ELSE zeroRead
              /\ UNCHANGED <<futures, queue>>
         ELSE /\ futures' = [futures EXCEPT ![k] = "pending"]
              /\ queue' = Append(queue, [key |-> k, live |-> TRUE])
              /\ UNCHANGED <<loaded, zeroRead>>
  /\ UNCHANGED <<renderVars, pureVars, cacheVars, fileVars, pc, tkey, raw, rv, hit, wlive, fetched>>

\* tiles.py:78-97
RequestTile(k) ==
  /\ reqs < MaxRequests
  /\ reqs' = reqs + 1
  /\ IF loaded[k] # "none" \/ futures[k] # "none"
       THEN UNCHANGED <<loaded, futures, queue, zeroRead>>
       ELSE IF Exists(disk[k])
         THEN /\ loaded' = [loaded EXCEPT ![k] = decode_tile(disk[k])]
              /\ zeroRead' = IF disk[k].len = 0 THEN zeroRead \cup {k} ELSE zeroRead
              /\ UNCHANGED <<futures, queue>>
         ELSE /\ futures' = [futures EXCEPT ![k] = "pending"]
              /\ queue' = Append(queue, [key |-> k, live |-> TRUE])
              /\ UNCHANGED <<loaded, zeroRead>>
  /\ UNCHANGED <<renderVars, pureVars, cacheVars, fileVars, pc, tkey, raw, rv, hit, wlive, fetched>>

\* a pool worker takes the next work item: tiles.py:99-100
WorkerStart(w) ==
  /\ pc[w] = "idle"
  /\ queue # <<>>
  /\ queue' = Tail(queue)
  /\ tkey' = [tkey EXCEPT ![w] = Head(queue).key]
  /\ wlive' = [wlive EXCEPT ![w] = Head(queue).live]
  /\ rv' = [rv EXCEPT ![w] = "none"]
  /\ raw' = [raw EXCEPT ![w] = None]
  /\ pc' = [pc EXCEPT ![w] = "ft_exists"]
  /\ UNCHANGED <<renderVars, pureVars, cacheVars, fileVars, hit, futures, loaded, reqs, fetched, zeroRead>>

\* tiles.py:101-103: the task ends and its future holds the result, or the
\* exception fetch_tile raised
FdFinish(w) ==
  /\ pc[w] = "fd_decode"
  /\ pc' = [pc EXCEPT ![w] = "idle"]
  /\ futures' = IF wlive[w]
                  THEN [futures EXCEPT ![tkey[w]] =
                          IF rv[w] = "raised" THEN "raised" ELSE decode_tile(raw[w])]
                  ELSE futures
  /\ wlive' = [wlive EXCEPT ![w] = FALSE]
  /\ UNCHANGED <<renderVars, pureVars, cacheVars, fileVars, tkey, raw, rv, hit, loaded, queue, reqs,
                 fetched, zeroRead>>

\* (mutant) update() deletes the completed futures without storing results
UpdateDrops ==
  /\ \E k \in Keys : Done(futures[k])
  /\ loaded' = loaded
  /\ futures' = [k \in Keys |-> IF Done(futures[k]) THEN "none" ELSE futures[k]]
  /\ UNCHANGED <<renderVars, pureVars, cacheVars, fileVars, pc, tkey, raw, rv, hit, queue, wlive, reqs,
                 fetched, zeroRead>>

\* tiles.py:105-116
Update ==
  /\ \E k \in Keys : Done(futures[k])
  /\ loaded' = [k \in Keys |->
                  IF Done(futures[k]) /\ futures[k] # "raised"
                    THEN futures[k] ELSE loaded[k]]
  /\ futures' = [k \in Keys |-> IF Done(futures[k]) THEN "none" ELSE futures[k]]
  /\ UNCHANGED <<renderVars, pureVars, cacheVars, fileVars, pc, tkey, raw, rv, hit, queue, wlive, reqs,
                 fetched, zeroRead>>

\* tiles.py:121-125: shutdown(wait=False) lets the submitted work items run;
\* their futures are dropped
Clear ==
  /\ futures' = [k \in Keys |-> "none"]
  /\ loaded' = [k \in Keys |-> "none"]
  /\ queue' = [i \in DOMAIN queue |-> [key |-> queue[i].key, live |-> FALSE]]
  /\ wlive' = [p \in Procs |-> FALSE]
  /\ UNCHANGED <<renderVars, pureVars, cacheVars, fileVars, pc, tkey, raw, rv, hit, reqs, fetched, zeroRead>>

\* tiles.py:118-119: self.loaded.get(key), None for a key that is not loaded
get_tile(k) == loaded[k]

\* A UI that prefetches through a TileLoader.
NextLoader ==
  \/ \E k \in Keys : RequestTile(k)
  \/ Update
  \/ Clear
  \/ \E w \in Workers :
       \/ WorkerStart(w)
       \/ FetchStep(w)
       \/ FdFinish(w)

SpecLoader == InitLoader /\ [][NextLoader]_vars

\* A UI that prefetches and never calls clear().  request_tile reads a file
\* that exists itself (tiles.py:87-92) and only the worker of a key writes
\* its file, so a submitted fetch finds no file and goes on to the download:
\* the steps of fetch_tile after a file was found (tiles.py:26-33) are left
\* out, and a worker that found a file would stay where it is.
WorkerStep(w) ==
  \/ WorkerStart(w)
  \/ FtExists(w)
  \/ FtGet(w)
  \/ FtOpenW(w)
  \/ FtWrite(w)
  \/ FdFinish(w)
NextPrefetch ==
  \/ \E k \in Keys : RequestTile(k)
  \/ Update
  \/ \E w \in Workers : WorkerStep(w)
\* The pool's threads run (tiles.py:74), every step of fetch_tile ends
\* (requests.get has a timeout, tiles.py:41), and the UI calls update() again
\* and again.
SpecPrefetch ==
  /\ InitLoader
  /\ [][NextPrefetch]_vars
  /\ WF_vars(Update)
  /\ \A w \in Workers : WF_vars(WorkerStep(w))

\* ============================================================ Framebuffer
\* render.py.  buffer[y + 1][x + 1] is the character at column x of row y.
\* A canvas is a buffer whose untouched cells hold Untouched: every drawing
\* primitive only writes, so what a layer does to the framebuffer is its
\* canvas laid over it.
Untouched == ""

\* A list of lists, as the source holds it: the rows and the buffer are
\* built as sequences, cell by cell.
List(f) == f \o <<>>
Grid(f) == List([y \in DOMAIN f |-> List(f[y])])

\* render.py:2-6
Framebuffer(w, h, ch) == Grid([y \in 1..h |-> [x \in 1..w |-> ch]])
FbHeight(buf) == Len(buf)
FbWidth(buf) == IF Len(buf) = 0 THEN 0 ELSE Len(buf[1])

\* (mutant) a cell that holds a glyph is not written again
set_char_once(buf, x, y, ch) ==
  IF /\ 0 <= x /\ x < FbWidth(buf) /\ 0 <= y /\ y < FbHeight(buf)
     /\ buf[y + 1][x + 1] \in {" ", Untouched}
    THEN Grid([buf EXCEPT ![y + 1][x + 1] = ch])
    ELSE buf

\* render.py:14-17
set_char(buf, x, y, ch) ==
  IF 0 <= x /\ x < FbWidth(buf) /\ 0 <= y /\ y < FbHeight(buf)
    THEN Grid([buf EXCEPT ![y + 1][x + 1] = ch])
    ELSE buf

Abs(n) == IF n < 0 THEN -n ELSE n
Max(a, b) == IF a > b THEN a ELSE b
Min(a, b) == IF a < b THEN a ELSE b
\* Python int() of a quotient: truncation toward zero (d > 0)
TruncDiv(n, d) == IF n >= 0 THEN n \div d ELSE -((-n) \div d)

\* (mutant) the loop ends before the end point is written
LineStepEndExclusive(s, x1, y1, dx, dy, sx, sy, ch) ==
  IF s.done THEN s
  ELSE IF s.x0 = x1 /\ s.y0 = y1 THEN [s EXCEPT !.done = TRUE]
  ELSE LET e2 == 2 * s.err
           stepx == e2 > -dy
           err1 == IF stepx THEN s.err - dy ELSE s.err
           stepy == e2 < dx
       IN [buf |-> set_char(s.buf, s.x0, s.y0, ch),
           x0 |-> IF stepx THEN s.x0 + sx ELSE s.x0,
           y0 |-> IF stepy THEN s.y0 + sy ELSE s.y0,
           err |-> IF stepy THEN err1 + dx ELSE err1,
           done |-> FALSE]

\* render.py:25-37, one turn of the loop on the state s = (buffer, x0, y0,
\* err, whether the loop has ended); the line ends at (x1, y1)
LineStep(s, x1, y1, dx, dy, sx, sy, ch) ==
  IF s.done THEN s
  ELSE LET b1 == set_char(s.buf, s.x0, s.y0, ch)
           e2 == 2 * s.err
           stepx == e2 > -dy
           err1 == IF stepx THEN s.err - dy ELSE s.err
           stepy == e2 < dx
       IN IF s.x0 = x1 /\ s.y0 = y1
            THEN [s EXCEPT !.buf = b1, !.done = TRUE]
            ELSE [buf |-> b1,
                  x0 |-> IF stepx THEN s.x0 + sx ELSE s.x0,
                  y0 |-> IF stepy THEN s.y0 + sy ELSE s.y0,
                  err |-> IF stepy THEN err1 + dx ELSE err1,
                  done |-> FALSE]

RECURSIVE LineLoop(_, _, _, _, _, _, _, _, _)
\* n turns of the loop (the turns are split in halves to keep the
\* evaluation shallow)
LineLoop(s, n, x1, y1, dx, dy, sx, sy, ch) ==
  IF n = 0 THEN s
  ELSE IF n = 1 THEN LineStep(s, x1, y1, dx, dy, sx, sy, ch)
  ELSE LET half == LineLoop(s, n \div 2, x1, y1, dx, dy, sx, sy, ch)
       IN IF half.done THEN half
          ELSE LineLoop(half, n - (n \div 2), x1, y1, dx, dy, sx, sy, ch)

\* render.py:19-37: every turn that does not end the loop moves x0 or y0
\* towards the end point, so the loop has ended after dx + dy + 1 turns
LineRun(buf, x0, y0, x1, y1, ch) ==
  LET dx == Abs(x1 - x0)
      dy == Abs(y1 - y0)
      sx == IF x0 < x1 THEN 1 ELSE -1
      sy == IF y0 < y1 THEN 1 ELSE -1
  IN LineLoop([buf |-> buf, x0 |-> x0, y0 |-> y0, err |-> dx - dy, done |-> FALSE],
              dx + dy + 1, x1, y1, dx, dy, sx, sy, ch)

\* render.py:19-37
draw_line(buf, x0, y0, x1, y1, ch) == LineRun(buf, x0, y0, x1, y1, ch).buf

\* render.py:79-83.  (Here and below a drawn buffer is tested before it is
\* passed on: the test makes the evaluation proceed primitive by primitive;
\* a buffer is never empty and a line run always ends.)
RECURSIVE OutlineFrom(_, _, _, _)
OutlineFrom(buf, points, i, ch) ==
  IF i >= Len(points) THEN buf
  ELSE LET run == LineRun(buf, points[i][1], points[i][2],
                          points[i + 1][1], points[i + 1][2], ch)
       IN IF run.done THEN OutlineFrom(run.buf, points, i + 1, ch) ELSE run.buf

draw_poly_outline(buf, points, ch) == OutlineFrom(buf, points, 1, ch)

\* render.py:60-67: the crossings of scanline y with the edges of one ring,
\* in edge order.  The abscissa xi + (y - yi) / (yj - yi) * (xj - xi) is
\* taken in exact arithmetic and truncated like int().
RECURSIVE RingNodes(_, _, _)
RingNodes(ring, y, i) ==
  IF i > Len(ring) THEN <<>>
  ELSE LET j == IF i = 1 THEN Len(ring) ELSE i - 1
           xi == ring[i][1]
           yi == ring[i][2]
           xj == ring[j][1]
           yj == ring[j][2]
           rest == RingNodes(ring, y, i + 1)
       IN IF (yi < y /\ yj >= y) \/ (yj < y /\ yi >= y)
            THEN <<IF yj > yi
                     THEN TruncDiv(xi * (yj - yi) + (y - yi) * (xj - xi), yj - yi)
                     ELSE TruncDiv(xi * (yi - yj) + (yi - y) * (xj - xi), yi - yj)>>
                 \o rest
            ELSE rest

RECURSIVE ScanNodes(_, _, _)
ScanNodes(rings, y, r) ==
  IF r > Len(rings) THEN <<>>
  ELSE RingNodes(rings[r], y, 1) \o ScanNodes(rings, y, r + 1)

\* list.sort() of integers
RECURSIVE SortInts(_)
Insert(n, sorted) ==
  LET k == Cardinality({i \in DOMAIN sorted : sorted[i] <= n})
  IN SubSeq(sorted, 1, k) \o <<n>> \o SubSeq(sorted, k + 1, Len(sorted))
SortInts(s) == IF s = <<>> THEN <<>> ELSE Insert(Head(s), SortInts(Tail(s)))

\* render.py:70-77: column x is inside one of the pairs of sorted crossings
InPairs(nodes, x, w) ==
  \E i \in 1..(Len(nodes) \div 2) :
    /\ Max(0, nodes[2 * i - 1]) <= x
    /\ x <= Min(w - 1, nodes[2 * i])

MinOf(S) == CHOOSE m \in S : \A n \in S : m <= n
MaxOf(S) == CHOOSE m \in S : \A n \in S : m >= n

\* render.py:43-77
draw_polygon_filled(buf, rings, ch) ==
  LET valid == SelectSeq(rings, LAMBDA ring : Len(ring) >= 3)
      ys == UNION {{valid[r][i][2] : i \in DOMAIN valid[r]} : r \in DOMAIN valid}
      min_y == Max(0, MinOf(ys))
      max_y == Min(FbHeight(buf) - 1, MaxOf(ys))
  IN IF valid = <<>> THEN buf
     ELSE Grid([row \in 1..FbHeight(buf) |->
            IF row - 1 < min_y \/ row - 1 > max_y THEN buf[row]
            ELSE LET nodes == SortInts(ScanNodes(valid, row - 1, 1))
                 IN [col \in 1..Len(buf[row]) |->
                       IF InPairs(nodes, col - 1, FbWidth(buf)) THEN ch
                       ELSE buf[row][col]]])

\* render.py:85-86
get_row(buf, y) == buf[y + 1]

\* canvas c laid over buffer buf
Overlay(buf, c) ==
  Grid([y \in DOMAIN buf |-> [x \in DOMAIN buf[y] |->
     IF c[y][x] = Untouched THEN buf[y][x] ELSE c[y][x]]])

\* ========================================================== render_ascii
\* ascii_map.py:6-20
TILE_SIZE == 256
MIN_ZOOM == 0
TERRAIN_FILL_MAX_ZOOM == 14
GEOM_SIMPLIFY_ZOOM == 14
MAX_GEOM_POINTS == 220
LABEL_MIN_ZOOM == 13
MAX_LABEL_LEN == 26
\* Cap of the candidate list.  The source sets 600 (ascii_map.py:19); the
\* model keeps the same code with a small cap.
MAX_LABEL_CANDIDATES == 4
\* ascii_map.py:21-30
ROAD_LABEL_PRIORITY ==
  [motorway |-> 0, trunk |-> 1, primary |-> 2, secondary |-> 3, tertiary |-> 4,
   minor |-> 5, service |-> 6, residential |-> 6]
\* ascii_map.py:31-36
GLYPH_GREEN == "'"
GLYPH_WATER == "~"
GLYPH_WATERWAY == "|"
GLYPH_BUILDING == "#"
GLYPH_CENTER == "@"
ROAD_DEFAULT_CHAR == " "
\* ascii_map.py:37-50 ("U+0060" stands for the backtick)
ROAD_CLASS_TO_CHAR ==
  [motorway |-> "=", trunk |-> "-", primary |-> "+", secondary |-> ";",
   tertiary |-> ":", minor |-> ".", street |-> ".", residential |-> ".",
   bridge |-> "%", rail |-> "x", service |-> ",", path |-> "U+0060"]
\* ascii_map.py:51-66
GREEN_LANDUSE_CLASSES ==
  {"allotments", "cemetery", "farmland", "forest", "garden", "grass", "meadow",
   "nature_reserve", "orchard", "park", "pitch", "recreation_ground",
   "village_green", "wood"}

\* ---------------------------------------------------------- decoded tiles
\* The shape mvt_decoder gives a decoded tile: layer name -> extent and
\* features; a feature has a geometry (type, coordinates) and properties.
\* A text is a sequence of characters; "U+00E9" stands for one non-ASCII
\* character.
EXTENT == 4096
Feature(geometry, properties) == [geometry |-> geometry, properties |-> properties]
Polygon(rings) == [type |-> "Polygon", coordinates |-> rings]
LineString(points) == [type |-> "LineString", coordinates |-> points]
Point(x, y) == [type |-> "Point", coordinates |-> <<x, y>>]
Rect(x0, y0, x1, y1) ==
  <<<<x0, y0>>, <<x1, y0>>, <<x1, y1>>, <<x0, y1>>, <<x0, y0>>>>
Road(class, x0, y0, x1, y1) ==
  Feature(LineString(<<<<x0, y0>>, <<x1, y1>>>>), [class |-> class])
\* A named road whose middle vertex is (x, y).
Named(class, name, x, y) ==
  Feature(LineString(<<<<x - 8, y>>, <<x, y>>, <<x + 8, y>>>>),
          [class |-> class, name |-> name])

\* A park over the whole tile and its 64-unit buffer, a lake with an island
\* around the tile centre, a building, roads through the centre and at the
\* edges and corners of the tile (clipped to the tile), a stream, road names.
\* The named roads stand a quarter of a pixel off the tile centre: the source
\* projects with floats, and a point that falls exactly between two cells
\* is rounded to either; the model projects exactly.
CityTile ==
  [landuse |-> [extent |-> EXTENT, features |-> <<
     Feature(Polygon(<<Rect(-64, -64, 4160, 4160)>>), [class |-> "park"]),
     Feature(Polygon(<<Rect(1024, 1024, 3072, 3072)>>), [class |-> "residential"]),
     Feature(Point(2048, 2048), [class |-> "park"]) >>],
   water |-> [extent |-> EXTENT, features |-> <<
     Feature(Polygon(<<Rect(1984, 1984, 2112, 2112),
                       Rect(2032, 2032, 2064, 2064)>>), [class |-> "lake"]),
     Feature(Polygon(<< <<<<0, 0>>, <<16, 16>>>> >>), [class |-> "pond"]) >>],
   building |-> [extent |-> EXTENT, features |-> <<
     Feature(Polygon(<<Rect(2080, 1984, 2112, 2016)>>), <<>>) >>],
   transportation |-> [extent |-> EXTENT, features |-> <<
     Road("primary", 1950, 2048, 2150, 2048),
     Road("primary", 3950, 2048, 4096, 2048),
     Road("primary", 0, 2048, 150, 2048),
     Road("minor", 3950, 3950, 4096, 4096),
     Road("minor", 0, 0, 150, 150),
     Road("motorway", 4096, 0, 3950, 146),
     Road("motorway", 0, 4096, 146, 3950),
     Road("ferry", 1950, 2000, 2150, 2000),
     Feature(Point(2048, 2048), [class |-> "primary"]) >>],
   waterway |-> [extent |-> EXTENT, features |-> <<
     Road("stream", 2008, 1950, 2008, 2150) >>],
   transportation_name |-> [extent |-> EXTENT, features |-> <<
     Named("primary", <<"E", "l", "m", " ", " ", "S", "t">>, 2052, 2096),
     Named("minor", <<"P", "i", "n", "e">>, 2070, 2000),
     Named("primary", <<" ", "E", "l", "m", " ", "S", "t">>, 2052, 2000),
     Named("motorway", <<"O", "a", "k">>, 2052, 2048),
     Named("path", <<"T", "r", "a", "i", "l">>, 2052, 2020),
     Named("trunk", <<"U+00E9">>, 2052, 2020),
     Named("trunk", <<"A", "1">>, 4080, 2000),
     Named("trunk", <<"B", "2">>, 16, 2096) >>]]

\* A tile the decoder accepts whose water layer declares an extent of 0
\* (mvt_decoder.py:291-292 stores the field as it is).
ZeroExtentTile ==
  [water |-> [extent |-> 0, features |-> <<
     Feature(Polygon(<<Rect(0, 0, 16, 16)>>), [class |-> "lake"]) >>]]

TileData(name) == IF name = "city" THEN CityTile ELSE ZeroExtentTile

\* What the port can answer for the tiles of a rendered view.
RenderContents == PortContents \cup {"zeroext"}

\* dict.get(key, default)
Get(dict, key, default) == IF key \in DOMAIN dict THEN dict[key] ELSE default

\* ------------------------------------------------------------------ view
\* cell_aspect is held in tenths (0.6 is 6), requested sizes in tenths of a
\* cell, world pixels are integers.
\* (mutant) the lower clamp is missing
ClampSizeNoFloor(v, lo, hi) == Min(v, hi)

\* ascii_map.py:125-126: max(lo, min(int(v), hi))
ClampSize(v, lo, hi) == Max(lo, Min(v, hi))

\* ascii_map.py:95-99: the clamped zoom and the camera world pixel, given the
\* world pixel (px, py) that latlon_to_world_pixel has for the clamped zoom
normalize_view(px, py, zoom) ==
  LET z == Max(MIN_ZOOM, Min(zoom, MAX_ZOOM))
      world_size == TILE_SIZE * (2 ^ z)
  IN [zoom |-> z,
      wx |-> px % world_size,
      wy |-> Max(0, Min(py, world_size - 1)),
      world_size |-> world_size]

\* ascii_map.py:334-337, with tl_wx = cam_wx - width * cell_aspect / 2
min_tx(v) == (20 * v.cam_wx - v.width * v.an) \div (20 * TILE_SIZE)
max_tx(v) == (20 * v.cam_wx + v.width * v.an) \div (20 * TILE_SIZE)
min_ty(v) == (2 * v.cam_wy - v.height) \div (2 * TILE_SIZE)
max_ty(v) == (2 * v.cam_wy + v.height) \div (2 * TILE_SIZE)

\* ascii_map.py:339-342: the (tx, ty) pairs whose tile is asked for, in the
\* order of the loops
TileLoop(v) ==
  LET cols == max_tx(v) - min_tx(v) + 1
      rows == max_ty(v) - min_ty(v) + 1
      all == [i \in 1..(cols * rows) |->
                <<min_tx(v) + ((i - 1) \div rows), min_ty(v) + ((i - 1) % rows)>>]
  IN SelectSeq(all, LAMBDA t : t[2] >= 0 /\ t[2] < 2 ^ v.zoom)

\* (mutant) the column is not wrapped
TileKeyNoWrap(v, t) == <<v.zoom, t[1], t[2]>>

\* ascii_map.py:344-345
TileKey(v, t) == <<v.zoom, t[1] % (2 ^ v.zoom), t[2]>>

\* ascii_map.py:139-147: world_to_screen of the tile point, int() truncating
\* toward zero; the caller has checked extent # 0 (the source divides by it)
tile_point_to_screen(v, tx, ty, pt, extent) ==
  <<TruncDiv(20 * ((tx * TILE_SIZE - v.cam_wx) * extent + pt[1] * TILE_SIZE)
               + v.width * v.an * extent,
             2 * v.an * extent),
    TruncDiv(2 * ((ty * TILE_SIZE - v.cam_wy) * extent + pt[2] * TILE_SIZE)
               + v.height * extent,
             2 * extent)>>

\* ascii_map.py:149-156
simplify_points(v, points) ==
  IF v.zoom < GEOM_SIMPLIFY_ZOOM \/ Len(points) <= MAX_GEOM_POINTS
    THEN points
    ELSE LET step == Max(2, (Len(points) + MAX_GEOM_POINTS - 1) \div MAX_GEOM_POINTS)
             sampled == [i \in 1..((Len(points) - 1) \div step + 1) |->
                           points[(i - 1) * step + 1]]
         IN IF sampled[Len(sampled)] # points[Len(points)]
              THEN Append(sampled, points[Len(points)])
              ELSE sampled

Project(v, tx, ty, points, extent) ==
  LET s == simplify_points(v, points)
  IN [i \in DOMAIN s |-> tile_point_to_screen(v, tx, ty, s[i], extent)]

\* ---------------------------------------------------------------- layers
\* ascii_map.py:177-182 and 209-214
PolygonsOf(geo) ==
  IF geo.type = "Polygon" THEN <<geo.coordinates>>
  ELSE IF geo.type = "MultiPolygon" THEN geo.coordinates
  ELSE <<>>

\* ascii_map.py:236-241 and 270-275
LinesOf(geo) ==
  IF geo.type = "LineString" THEN <<geo.coordinates>>
  ELSE IF geo.type = "MultiLineString" THEN geo.coordinates
  ELSE <<>>

\* ascii_map.py:185-190: the projected rings of a polygon that have at least
\* 3 points
ScreenRings(v, tx, ty, polygon, extent) ==
  SelectSeq([r \in DOMAIN polygon |-> Project(v, tx, ty, polygon[r], extent)],
            LAMBDA points : Len(points) >= 3)

RECURSIVE OutlineRings(_, _, _, _)
\* ascii_map.py:196-197
OutlineRings(buf, rings, i, ch) ==
  IF i > Len(rings) THEN buf
  ELSE LET drawn == draw_poly_outline(buf, rings[i], ch)
       IN IF drawn = <<>> THEN drawn ELSE OutlineRings(drawn, rings, i + 1, ch)

RECURSIVE DrawPolygons(_, _, _, _, _, _, _, _, _)
\* ascii_map.py:184-197, the polygons of one feature from the i-th on
DrawPolygons(buf, v, tx, ty, polygons, i, extent, ch, filled) ==
  IF i > Len(polygons) THEN buf
  ELSE LET rings == ScreenRings(v, tx, ty, polygons[i], extent)
           drawn == IF rings = <<>> THEN buf
                    ELSE IF filled THEN draw_polygon_filled(buf, rings, ch)
                    ELSE OutlineRings(buf, rings, 1, ch)
       IN IF drawn = <<>> THEN drawn
          ELSE DrawPolygons(drawn, v, tx, ty, polygons, i + 1, extent, ch, filled)

RECURSIVE DrawPolygonFeatures(_, _, _, _, _, _, _, _, _)
\* ascii_map.py:174-197, the features from the i-th on
DrawPolygonFeatures(buf, v, tx, ty, features, i, extent, ch, filled) ==
  IF i > Len(features) THEN buf
  ELSE LET drawn == DrawPolygons(buf, v, tx, ty, PolygonsOf(features[i].geometry),
                               1, extent, ch, filled)
       IN IF drawn = <<>> THEN drawn
          ELSE DrawPolygonFeatures(drawn, v, tx, ty, features, i + 1, extent, ch,
                                   filled)

\* A point of a polygon feature is projected: tile_point_to_screen runs.
ProjectsPolygonPoint(features) ==
  \E i \in DOMAIN features :
    LET polygons == PolygonsOf(features[i].geometry)
    IN \E p \in DOMAIN polygons : \E r \in DOMAIN polygons[p] :
         polygons[p][r] # <<>>

\* ascii_map.py:169-197
draw_polygon_layer(buf, v, tx, ty, tile_data, layer_name, ch, filled) ==
  IF layer_name \notin DOMAIN tile_data THEN buf
  ELSE DrawPolygonFeatures(buf, v, tx, ty, tile_data[layer_name].features, 1,
                           tile_data[layer_name].extent, ch, filled)

\* ascii_map.py:146: ZeroDivisionError in draw_polygon_layer
PolygonLayerRaises(tile_data, layer_name) ==
  /\ layer_name \in DOMAIN tile_data
  /\ tile_data[layer_name].extent = 0
  /\ ProjectsPolygonPoint(tile_data[layer_name].features)

\* ascii_map.py:200: tile_data.get("landuse") or tile_data.get("landcover")
GreenLayerName(tile_data) ==
  IF "landuse" \in DOMAIN tile_data THEN "landuse" ELSE "landcover"

\* ascii_map.py:204-207
GreenFeatures(tile_data) ==
  SelectSeq(tile_data[GreenLayerName(tile_data)].features,
            LAMBDA f : Get(f.properties, "class", "") \in GREEN_LANDUSE_CLASSES)

\* ascii_map.py:199-226
draw_green_layer(buf, v, tx, ty, tile_data) ==
  IF GreenLayerName(tile_data) \notin DOMAIN tile_data THEN buf
  ELSE DrawPolygonFeatures(buf, v, tx, ty, GreenFeatures(tile_data), 1,
                           tile_data[GreenLayerName(tile_data)].extent,
                           GLYPH_GREEN, TRUE)

\* ascii_map.py:146: ZeroDivisionError in draw_green_layer
GreenLayerRaises(tile_data) ==
  /\ GreenLayerName(tile_data) \in DOMAIN tile_data
  /\ tile_data[GreenLayerName(tile_data)].extent = 0
  /\ ProjectsPolygonPoint(GreenFeatures(tile_data))

\* ascii_map.py:232-235
LineChar(feature, class_to_char, default_char) ==
  Get(class_to_char, Get(feature.properties, "class", ""), default_char)

RECURSIVE DrawLines(_, _, _, _, _, _, _, _)
\* ascii_map.py:243-247, the lines of one feature from the i-th on
DrawLines(buf, v, tx, ty, lines, i, extent, ch) ==
  IF i > Len(lines) THEN buf
  ELSE LET points == Project(v, tx, ty, lines[i], extent)
           drawn == IF Len(points) >= 2 THEN draw_poly_outline(buf, points, ch)
                    ELSE buf
       IN IF drawn = <<>> THEN drawn
          ELSE DrawLines(drawn, v, tx, ty, lines, i + 1, extent, ch)

RECURSIVE DrawLineFeatures(_, _, _, _, _, _, _, _)
\* ascii_map.py:230-247, the features from the i-th on
DrawLineFeatures(buf, v, tx, ty, layer, i, class_to_char, default_char) ==
  IF i > Len(layer.features) THEN buf
  ELSE LET ch == LineChar(layer.features[i], class_to_char, default_char)
           drawn == IF ch = " " THEN buf
                    ELSE DrawLines(buf, v, tx, ty,
                                   LinesOf(layer.features[i].geometry), 1,
                                   layer.extent, ch)
       IN IF drawn = <<>> THEN drawn
          ELSE DrawLineFeatures(drawn, v, tx, ty, layer, i + 1, class_to_char,
                                default_char)

\* ascii_map.py:228-247
draw_line_layer(buf, v, tx, ty, layer, class_to_char, default_char) ==
  DrawLineFeatures(buf, v, tx, ty, layer, 1, class_to_char, default_char)

\* ascii_map.py:146: ZeroDivisionError in draw_line_layer
LineLayerRaises(layer, class_to_char, default_char) ==
  /\ layer.extent = 0
  /\ \E i \in DOMAIN layer.features :
       /\ LineChar(layer.features[i], class_to_char, default_char) # " "
       /\ \E l \in DOMAIN LinesOf(layer.features[i].geometry) :
            LinesOf(layer.features[i].geometry)[l] # <<>>

\* ascii_map.py:357: tile_data.get("road") or tile_data.get("transportation")
RoadLayerName(tile_data) ==
  IF "road" \in DOMAIN tile_data THEN "road" ELSE "transportation"

\* ---------------------------------------------------------- street labels
Whitespace == {" ", "\t", "\n"}
NonAscii == {"U+00E9"}

\* " ".join(s.split()): runs of whitespace become one space, leading and
\* trailing whitespace goes
JoinSplit(s) ==
  LET Kept(i) == \/ s[i] \notin Whitespace
                 \/ /\ i > 1
                    /\ s[i - 1] \notin Whitespace
                    /\ \E j \in (i + 1)..Len(s) : s[j] \notin Whitespace
      marked == [i \in DOMAIN s |->
                   IF ~Kept(i) THEN "" ELSE IF s[i] \in Whitespace THEN " " ELSE s[i]]
  IN SelectSeq(marked, LAMBDA c : c # "")

\* ascii_map.py:158-167
normalize_label_text(raw_text) ==
  LET text == SelectSeq(JoinSplit(raw_text), LAMBDA c : c \notin NonAscii)
  IN IF Len(text) > MAX_LABEL_LEN
       THEN SubSeq(text, 1, MAX_LABEL_LEN - 3) \o <<".", ".", ".">>
       ELSE text

\* ascii_map.py:265: props.get("name_en") or props.get("name"); an absent
\* name and an empty one are both the empty text
LabelName(props) ==
  IF Get(props, "name_en", <<>>) # <<>> THEN props.name_en
  ELSE Get(props, "name", <<>>)

RECURSIVE Concat(_, _)
Concat(seqs, i) == IF i > Len(seqs) THEN <<>> ELSE seqs[i] \o Concat(seqs, i + 1)

\* ascii_map.py:277-288: the candidate of one line, if it has one
LineCandidate(v, tx, ty, line, extent, prio, text) ==
  IF Len(line) < 2 THEN <<>>
  ELSE LET s == simplify_points(v, line)
           mid == s[(Len(s) \div 2) + 1]
           p == tile_point_to_screen(v, tx, ty, mid, extent)
       IN IF p[1] < 0 \/ p[1] >= v.width \/ p[2] < 0 \/ p[2] >= v.height
            THEN <<>>
            ELSE <<[prio |-> prio, y |-> p[2], x |-> p[1], text |-> text]>>

\* ascii_map.py:259-288: the candidates of one feature
FeatureCandidates(v, tx, ty, feature, extent) ==
  LET road_class == Get(feature.properties, "class", "")
      text == normalize_label_text(LabelName(feature.properties))
      lines == LinesOf(feature.geometry)
  IN IF road_class \notin DOMAIN ROAD_LABEL_PRIORITY \/ text = <<>> THEN <<>>
     ELSE Concat([l \in DOMAIN lines |->
                    LineCandidate(v, tx, ty, lines[l], extent,
                                  ROAD_LABEL_PRIORITY[road_class], text)], 1)

RECURSIVE AppendCapped(_, _)
\* ascii_map.py:288-290: append, then stop when the list has reached the cap
AppendCapped(out, new) ==
  IF new = <<>> THEN out
  ELSE IF Len(out) + 1 >= MAX_LABEL_CANDIDATES THEN Append(out, Head(new))
  ELSE AppendCapped(Append(out, Head(new)), Tail(new))

\* ascii_map.py:249-290
collect_street_label_candidates(v, tx, ty, tile_data, out) ==
  IF v.zoom < LABEL_MIN_ZOOM THEN out
  ELSE IF "transportation_name" \notin DOMAIN tile_data THEN out
  ELSE LET layer == tile_data.transportation_name
       IN IF layer.extent = 0 THEN out
          ELSE AppendCapped(out,
                 Concat([f \in DOMAIN layer.features |->
                           FeatureCandidates(v, tx, ty, layer.features[f],
                                             layer.extent)], 1))

\* (mutant) the priority is left out of the sort key
KeyLessNoPriority(a, b) == a.y < b.y \/ (a.y = b.y /\ a.x < b.x)

\* the sort key of ascii_map.py:300
KeyLess(a, b) ==
  \/ a.prio < b.prio
  \/ a.prio = b.prio /\ a.y < b.y
  \/ a.prio = b.prio /\ a.y = b.y /\ a.x < b.x

RECURSIVE SortedUpTo(_, _)
\* sorted() is stable: equal keys keep the order of the list
SortedUpTo(s, n) ==
  IF n = 0 THEN <<>>
  ELSE LET t == SortedUpTo(s, n - 1)
           k == Cardinality({i \in DOMAIN t : ~KeyLess(s[n], t[i])})
       IN SubSeq(t, 1, k) \o <<s[n]>> \o SubSeq(t, k + 1, Len(t))

\* ascii_map.py:310-311 and 324-325: the cells of the label and a margin of
\* one cell, inside the framebuffer
LabelBox(start_x, end_x, y, width, height) ==
  {<<ox, oy>> : ox \in Max(0, start_x - 1)..(Min(width, end_x + 2) - 1),
                oy \in Max(0, y - 1)..(Min(height, y + 2) - 1)}

RECURSIVE StampText(_, _, _, _, _)
\* ascii_map.py:319-320
StampText(buf, text, start_x, y, i) ==
  IF i > Len(text) THEN buf
  ELSE LET drawn == set_char(buf, start_x + i - 1, y, text[i])
       IN IF drawn = <<>> THEN drawn ELSE StampText(drawn, text, start_x, y, i + 1)

\* ascii_map.py:319-324
StampLabel(buf, text, start_x, end_x, y, width) ==
  LET b1 == StampText(buf, text, start_x, y, 1)
      b2 == IF start_x - 1 >= 0 THEN set_char(b1, start_x - 1, y, " ") ELSE b1
  IN IF end_x + 1 < width THEN set_char(b2, end_x + 1, y, " ") ELSE b2

\* (mutant) no name counts as placed
AlreadyPlacedNever(placed_names, text) == FALSE

\* ascii_map.py:301
AlreadyPlaced(placed_names, text) == text \in placed_names

\* ascii_map.py:295
MaxLabels(width, height) == Max(10, Min(48, (width \div 4) + (height \div 3)))

RECURSIVE PlaceFrom(_, _, _, _, _, _, _, _)
\* ascii_map.py:300-332, the sorted candidates from the i-th on; `placed`
\* lists the labels stamped so far
PlaceFrom(buf, sorted, i, occupied, placed_names, placed, width, height) ==
  IF i > Len(sorted) \/ Len(placed) >= MaxLabels(width, height)
    THEN [buffer |-> buf, placed |-> placed]
  ELSE LET c == sorted[i]
           start_x == c.x - (Len(c.text) \div 2)
           end_x == start_x + Len(c.text) - 1
           box == LabelBox(start_x, end_x, c.y, width, height)
       IN IF \/ AlreadyPlaced(placed_names, c.text)
             \/ start_x < 1 \/ end_x >= width - 1 \/ c.y < 1 \/ c.y >= height - 1
             \/ box \cap occupied # {}
            THEN PlaceFrom(buf, sorted, i + 1, occupied, placed_names, placed,
                           width, height)
            ELSE LET drawn == StampLabel(buf, c.text, start_x, end_x, c.y, width)
                 IN IF drawn = <<>> THEN [buffer |-> drawn, placed |-> placed] ELSE
                 PlaceFrom(drawn,
                           sorted, i + 1, occupied \cup box,
                           placed_names \cup {c.text},
                           Append(placed, [text |-> c.text, start_x |-> start_x,
                                           end_x |-> end_x, y |-> c.y]),
                           width, height)

\* ascii_map.py:292-332
draw_street_labels(buf, width, height, candidates) ==
  PlaceFrom(buf, SortedUpTo(candidates, Len(candidates)), 1, {}, {}, <<>>,
            width, height)

\* ----------------------------------------------------------------- calls
\* Number of label candidates in a call of draw_street_labels.
MaxCands == 2

\* A call render_ascii(lat, lon, zoom, width, height, cell_aspect,
\* show_street_names): w10 and h10 are the requested size in tenths, an the
\* requested cell_aspect in tenths, (px, py) the world pixel of (lat, lon).
Request(w10, h10, an, zoom, px, py, show) ==
  [w10 |-> w10, h10 |-> h10, an |-> an, zoom |-> zoom, px |-> px, py |-> py,
   show |-> show]

\* The centre of tile (1, 1) at zoom 13 in four sizes; the border of tiles
\* (1, 1) and (2, 1) with zoom 20 asked for; the corner of four tiles at
\* zoom 1; west of the antimeridian at the top of the world, zoom -1 asked;
\* the widest view with the widest cells over four tiles of a row at zoom 14.
Requests ==
  {Request(s[1], s[2], 6, 13, 384, 384, show) :
     s \in {<<75, 30>>, <<249, 120>>}, show \in BOOLEAN}
  \cup {Request(s[1], s[2], 6, 13, 384, 384, TRUE) :
          s \in {<<5000, 30>>, <<75, 9990>>}}
  \cup {Request(75, 30, an, 20, 512, 384, show) : an \in {6, 1}, show \in BOOLEAN}
  \cup {Request(75, 30, 6, 1, 256, 256, FALSE)}
  \cup {Request(75, 30, an, -1, -3, -2, FALSE) : an \in {6, 30}}
  \cup {Request(5000, 30, 20, 14, 512, 384, TRUE)}

\* Cache directories a render starts on: empty, a zero-byte file, a complete
\* tile of an earlier run.
RenderDirs ==
  {Dir(<<>>), Dir(<<13, 1, 1>> :> Bytes("city", 0)),
   Dir(<<14, 1, 1>> :> Bytes("city", FullLen))}

\* Candidates a tile loop can have collected for a 20 x 10 framebuffer.
CandPool ==
  {[prio |-> p, y |-> at[2], x |-> at[1], text |-> t] :
     p \in {0, 2},
     at \in {<<10, 2>>, <<10, 8>>, <<12, 2>>, <<14, 3>>, <<1, 5>>},
     t \in {<<"E", "l", "m", " ", "S", "t">>, <<"O", "a", "k">>}}

\* ztop of a cell nothing wrote
NoWrite == [rank |-> 0, glyphs |-> {}, layers |-> {}]

\* The layer of rank `rank` has written canvas c.
Stamp(z, c, rank) ==
  Grid([y \in DOMAIN z |-> [x \in DOMAIN z[y] |->
     IF c[y][x] = Untouched THEN z[y][x]
     ELSE [rank |-> Max(rank, z[y][x].rank),
           glyphs |-> IF rank > z[y][x].rank THEN {c[y][x]}
                      ELSE IF rank = z[y][x].rank THEN z[y][x].glyphs \cup {c[y][x]}
                      ELSE z[y][x].glyphs,
           layers |-> z[y][x].layers \cup {rank}]]])

\* tiles.py:18-56 run by one caller alone: the bytes returned and the file
\* left behind
fetch_tile(f) ==
  IF Exists(f) /\ f.len > 0
    THEN {[raw |-> f, file |-> f]}
    ELSE {[raw |-> None, file |-> NoFile]}
         \cup {[raw |-> Bytes(c, FullLen), file |-> Bytes(c, FullLen)] :
                 c \in RenderContents}

\* ascii_map.py:72-76
cache_put(c, k, value) ==
  LET c1 == move_to_end(setitem(c, k, value), k)
  IN IF Overfull(c1) THEN popitem_first(c1) ELSE c1

\* ascii_map.py:83-92 run by one caller alone
get_decoded_tile(c, f, k) ==
  IF Has(c, k)
    THEN {[cache |-> move_to_end(c, k), file |-> f, val |-> Lookup(c, k)]}
    ELSE {[cache |-> cache_put(c, k, decode_tile(r.raw)), file |-> r.file,
           val |-> decode_tile(r.raw)] : r \in fetch_tile(f)}

restVars == <<procVars, loaderVars, histVars, pureVars>>

InitRender ==
  /\ InitCommon
  /\ PureOff
  /\ disk \in RenderDirs
  /\ rpc = "start"
  /\ rq \in Requests
  /\ rs = <<>>
  /\ buffer = <<>>
  /\ ztop = <<>>
  /\ result = <<>>

\* ascii_map.py:125-136
RBegin ==
  /\ rpc = "start"
  /\ LET width == ClampSize(TruncDiv(rq.w10, 10), 20, 320)
         height == ClampSize(TruncDiv(rq.h10, 10), 10, 140)
         nv == normalize_view(rq.px, rq.py, rq.zoom)
     IN /\ rs' = [width |-> width, height |-> height,
                  an |-> Max(2, Min(rq.an, 20)), zoom |-> nv.zoom,
                  cam_wx |-> nv.wx, cam_wy |-> nv.wy, idx |-> 1,
                  tile |-> EMPTY, cands |-> <<>>, placed |-> <<>>]
        /\ buffer' = Framebuffer(width, height, " ")
        /\ ztop' = Framebuffer(width, height, NoWrite)
  /\ rpc' = "tile"
  /\ UNCHANGED <<cache, disk, restVars, rq, result>>

\* ascii_map.py:339-348, and the end of the loops
RTile ==
  /\ rpc = "tile"
  /\ IF rs.idx > Len(TileLoop(rs))
       THEN /\ rpc' = "labels"
            /\ UNCHANGED <<cache, disk, rs>>
       ELSE LET key == TileKey(rs, TileLoop(rs)[rs.idx])
            IN \E o \in get_decoded_tile(cache, disk[key], key) :
                 /\ cache' = o.cache
                 /\ disk' = [disk EXCEPT ![key] = o.file]
                 /\ rs' = [rs EXCEPT !.tile = o.val,
                                     !.idx = IF o.val = EMPTY THEN @ + 1 ELSE @]
                 /\ rpc' = IF o.val = EMPTY THEN "tile" ELSE "green"
  /\ UNCHANGED <<restVars, rq, buffer, ztop, result>>

Blank == Framebuffer(rs.width, rs.height, Untouched)
Tx == TileLoop(rs)[rs.idx][1]
Ty == TileLoop(rs)[rs.idx][2]

\* A layer has drawn canvas c.
Paint(c, rank) ==
  /\ buffer' = Overlay(buffer, c)
  /\ ztop' = Stamp(ztop, c, rank)

\* One drawing step of the tile: it raises (ZeroDivisionError, which
\* render_ascii does not catch), or is skipped, or draws.
Layer(raises, skipped, c, rank, to) ==
  IF raises /\ ~skipped
    THEN /\ rpc' = "raised"
         /\ UNCHANGED <<buffer, ztop>>
    ELSE /\ rpc' = to
         /\ IF skipped THEN UNCHANGED <<buffer, ztop>> ELSE Paint(c, rank)

\* ascii_map.py:350-351
RGreen ==
  /\ rpc = "green"
  /\ Layer(GreenLayerRaises(TileData(rs.tile)), rs.zoom > TERRAIN_FILL_MAX_ZOOM,
           draw_green_layer(Blank, rs, Tx, Ty, TileData(rs.tile)), 1, "waterfill")
  /\ UNCHANGED <<cache, disk, restVars, rq, rs, result>>

\* ascii_map.py:352
RWaterFill ==
  /\ rpc = "waterfill"
  /\ Layer(PolygonLayerRaises(TileData(rs.tile), "water"),
           rs.zoom > TERRAIN_FILL_MAX_ZOOM,
           draw_polygon_layer(Blank, rs, Tx, Ty, TileData(rs.tile), "water",
                              GLYPH_WATER, TRUE), 2, "wateroutline")
  /\ UNCHANGED <<cache, disk, restVars, rq, rs, result>>

\* ascii_map.py:353
RWaterOutline ==
  /\ rpc = "wateroutline"
  /\ Layer(PolygonLayerRaises(TileData(rs.tile), "water"), FALSE,
           draw_polygon_layer(Blank, rs, Tx, Ty, TileData(rs.tile), "water",
                              GLYPH_WATER, FALSE), 3, "building")
  /\ UNCHANGED <<cache, disk, restVars, rq, rs, result>>

\* ascii_map.py:355
RBuilding ==
  /\ rpc = "building"
  /\ Layer(PolygonLayerRaises(TileData(rs.tile), "building"), FALSE,
           draw_polygon_layer(Blank, rs, Tx, Ty, TileData(rs.tile), "building",
                              GLYPH_BUILDING, FALSE), 4, "roads")
  /\ UNCHANGED <<cache, disk, restVars, rq, rs, result>>

\* ascii_map.py:357-363
RRoads ==
  /\ rpc = "roads"
  /\ LET tile_data == TileData(rs.tile)
         present == RoadLayerName(tile_data) \in DOMAIN tile_data
     IN Layer(present /\ LineLayerRaises(tile_data[RoadLayerName(tile_data)],
                                         ROAD_CLASS_TO_CHAR, ROAD_DEFAULT_CHAR),
              ~present,
              draw_line_layer(Blank, rs, Tx, Ty, tile_data[RoadLayerName(tile_data)],
                              ROAD_CLASS_TO_CHAR, ROAD_DEFAULT_CHAR), 5, "waterway")
  /\ UNCHANGED <<cache, disk, restVars, rq, rs, result>>

\* ascii_map.py:365-366
RWaterway ==
  /\ rpc = "waterway"
  /\ LET tile_data == TileData(rs.tile)
         present == "waterway" \in DOMAIN tile_data
     IN Layer(present /\ LineLayerRaises(tile_data.waterway, <<>>, GLYPH_WATERWAY),
              ~present,
              draw_line_layer(Blank, rs, Tx, Ty, tile_data.waterway, <<>>,
                              GLYPH_WATERWAY), 6, "collect")
  /\ UNCHANGED <<cache, disk, restVars, rq, rs, result>>

\* ascii_map.py:367-368 and the next turn of the loops
RCollect ==
  /\ rpc = "collect"
  /\ rs' = [rs EXCEPT
              !.cands = IF rq.show
                          THEN collect_street_label_candidates(
                                 rs, Tx, Ty, TileData(rs.tile), @)
                          ELSE @,
              !.idx = @ + 1]
  /\ rpc' = "tile"
  /\ UNCHANGED <<cache, disk, restVars, rq, buffer, ztop, result>>

\* ascii_map.py:369-370
RLabels ==
  /\ rpc = "labels"
  /\ rpc' = "center"
  /\ IF rq.show
       THEN LET r == draw_street_labels(Blank, rs.width, rs.height, rs.cands)
            IN /\ Paint(r.buffer, 7)
               /\ rs' = [rs EXCEPT !.placed = r.placed]
       ELSE UNCHANGED <<buffer, ztop, rs>>
  /\ UNCHANGED <<cache, disk, restVars, rq, result>>

RECURSIVE Join(_, _, _)
\* "\n".join(lines[lo..hi]) (joined in halves to keep the evaluation shallow)
Join(lines, lo, hi) ==
  IF lo > hi THEN <<>>
  ELSE IF lo = hi THEN lines[lo]
  ELSE Join(lines, lo, (lo + hi) \div 2) \o <<"\n">>
         \o Join(lines, ((lo + hi) \div 2) + 1, hi)

\* ascii_map.py:371-381
RCenter ==
  /\ rpc = "center"
  /\ buffer' = set_char(buffer, rs.width \div 2, rs.height \div 2, GLYPH_CENTER)
  /\ ztop' = Stamp(ztop, set_char(Blank, rs.width \div 2, rs.height \div 2,
                                  GLYPH_CENTER), 8)
  /\ result' = [text |-> Join([y \in 1..rs.height |-> get_row(buffer', y - 1)],
                              1, rs.height),
                wx |-> rs.cam_wx, wy |-> rs.cam_wy, zoom |-> rs.zoom,
                width |-> rs.width, height |-> rs.height, cell_aspect |-> rs.an]
  /\ rpc' = "returned"
  /\ UNCHANGED <<cache, disk, restVars, rq, rs>>

NextRender ==
  \/ RBegin
  \/ RTile
  \/ RGreen
  \/ RWaterFill
  \/ RWaterOutline
  \/ RBuilding
  \/ RRoads
  \/ RWaterway
  \/ RCollect
  \/ RLabels
  \/ RCenter

SpecRender == InitRender /\ [][NextRender]_vars

\* draw_street_labels on the candidates of any tile loop: the render is at
\* line 369 with a 20 x 10 framebuffer nothing was drawn on.
InitLabels ==
  /\ InitCommon
  /\ PureOff
  /\ disk = Dir(<<>>)
  /\ rpc = "labels"
  /\ rq = Request(200, 100, 6, 13, 384, 384, TRUE)
  /\ \E n \in 0..MaxCands : \E cands \in [1..n -> CandPool] :
       rs = [width |-> 20, height |-> 10, an |-> 6, zoom |-> 13,
             cam_wx |-> 384, cam_wy |-> 384, idx |-> 2, tile |-> EMPTY,
             cands |-> cands, placed |-> <<>>]
  /\ buffer = Framebuffer(20, 10, " ")
  /\ ztop = Framebuffer(20, 10, NoWrite)
  /\ result = <<>>

NextLabels ==
  \/ RLabels
  \/ RCenter

SpecLabels == InitLabels /\ [][NextLabels]_vars

\* ------------------------------------------------------- float arithmetic
\* lat, lon and the world pixel of the camera are Python floats: binary
\* floating point, every operation rounded to nearest, ties to even.  The
\* model keeps that arithmetic with MantBits significant bits where the
\* interpreter has 53.  A float is m * 2^e with |m| < 2^MantBits, held with m
\* odd (or m = 0 and e = 0) so that equal numbers are equal records.
MantBits == 24

Sgn(n) == IF n < 0 THEN -1 ELSE IF n > 0 THEN 1 ELSE 0

\* The element of a singleton.  An intermediate result that is used more than
\* once is bound as `v \in {e}`, which computes it once, as the assignment to
\* a local does in the source.
Once(S) == CHOOSE v \in S : TRUE

\* Number of bits of 0 <= n < 2^31, by halving the range
BitLen(n) ==
  LET b16 == IF n >= 65536 THEN 16 ELSE 0
      n16 == n \div 2^b16
      b8 == IF n16 >= 256 THEN 8 ELSE 0
      n8 == n16 \div 2^b8
      b4 == IF n8 >= 16 THEN 4 ELSE 0
      n4 == n8 \div 2^b4
      b2 == IF n4 >= 4 THEN 2 ELSE 0
      n2 == n4 \div 2^b2
  IN b16 + b8 + b4 + b2 + (IF n2 >= 2 THEN 2 ELSE n2)

\* Number of trailing zero bits of m # 0
TrailingZeros(m) ==
  LET z16 == IF m % 65536 = 0 THEN 16 ELSE 0
      m16 == m \div 2^z16
      z8 == IF m16 % 256 = 0 THEN 8 ELSE 0
      m8 == m16 \div 2^z8
      z4 == IF m8 % 16 = 0 THEN 4 ELSE 0
      m4 == m8 \div 2^z4
      z2 == IF m4 % 4 = 0 THEN 2 ELSE 0
      m2 == m4 \div 2^z2
  IN z16 + z8 + z4 + z2 + (IF m2 % 2 = 0 THEN 1 ELSE 0)

\* m * 2^e with the trailing zero bits of m moved into e
Fl(m, e) ==
  IF m = 0 THEN [m |-> 0, e |-> 0]
  ELSE LET z == TrailingZeros(m)
       IN [m |-> m \div 2^z, e |-> e + z]

Zero == Fl(0, 0)
Neg(x) == [m |-> -x.m, e |-> x.e]
Top(x) == x.e + BitLen(Abs(x.m))
\* x * 2^k, exact
Scale(x, k) == IF x.m = 0 THEN x ELSE [m |-> x.m, e |-> x.e + k]

\* The float nearest to sign * (n + rem / 2^s) * 2^(e + s), where
\* 0 <= rem < 2^s and `more` says that the exact value lies above that.
RoundRem(sign, n, rem, s, more, e) ==
  LET half == IF s = 0 THEN 0 ELSE 2^(s - 1)
      up == s > 0 /\ (\/ rem > half
                      \/ rem = half /\ (more \/ n % 2 = 1))
  IN Fl(sign * (IF up THEN n + 1 ELSE n), e + s)

\* The float nearest to sign * a * 2^e (`more`: the exact value lies above a,
\* by less than one unit; a then has at least MantBits + 2 bits).
Round(sign, a, e, more) ==
  Once({RoundRem(sign, n \div 2^s, n % 2^s, s, more, e) :
          n \in {a}, s \in {Max(0, BitLen(a) - MantBits)}})

\* x + y
Add(x, y) ==
  IF x.m = 0 THEN y
  ELSE IF y.m = 0 THEN x
  ELSE Once({Once({Once({
         IF t <= 0
           THEN Once({Round(Sgn(n), Abs(n), eA, FALSE) :
                        n \in {Sgn(hi.m) * A + lo.m * 2^(-t)}})
           ELSE Once({Round(Sgn(hi.m),
                            IF Sgn(hi.m) = Sgn(lo.m) THEN A + B
                            ELSE IF more THEN A - B - 1 ELSE A - B,
                            eA, more) :
                        B \in {IF t > 30 THEN 0 ELSE Abs(lo.m) \div 2^t},
                        more \in {IF t > 30 THEN TRUE ELSE Abs(lo.m) % 2^t # 0}}) :
           A \in {Abs(hi.m) * 2^up}, eA \in {hi.e - up}, t \in {hi.e - up - lo.e}}) :
         up \in {MantBits + 3 - BitLen(Abs(hi.m))}}) :
         hi \in {IF Top(x) >= Top(y) THEN x ELSE y},
         lo \in {IF Top(x) >= Top(y) THEN y ELSE x}})

Sub(x, y) == Add(x, Neg(y))
Less(x, y) == Sub(x, y).m < 0
FMax(x, y) == IF Less(x, y) THEN y ELSE x
FMin(x, y) == IF Less(y, x) THEN y ELSE x

\* x * c for an integer 0 < c < 1024
MulInt(x, c) ==
  LET a == Abs(x.m)
      low == (a % 1024) * c
      q == (a \div 1024) * c + low \div 1024
      r == low % 1024
      bits == IF q = 0 THEN BitLen(r) ELSE BitLen(q) + 10
      s == Max(0, bits - MantBits)
  IN RoundRem(Sgn(x.m), q * 2^(10 - s) + r \div 2^s, r % 2^s, s, FALSE,
              x.e)

\* x / d for an integer 1 < d < 1024
DivInt(x, d) ==
  IF x.m = 0 THEN x
  ELSE LET a == Abs(x.m)
           up == MantBits - BitLen(a)
           M == a * 2^up
           k == BitLen(d) + 2
           q == (M \div d) * 2^k + ((M % d) * 2^k) \div d
       IN Round(Sgn(x.m), q, x.e - up - k, ((M % d) * 2^k) % d # 0)

\* math.fmod(x, 2^w): exact, with the sign of x
fmod(x, w) ==
  LET k == w - x.e
  IN IF k <= 0 THEN Zero
     ELSE IF k > 30 THEN x
     ELSE Fl(Sgn(x.m) * (Abs(x.m) % 2^k), x.e)

\* x % 2^w as float.__mod__ computes it: the modulus is added to a negative
\* remainder, and that sum is rounded.
FloatMod(x, w) ==
  LET r == fmod(x, w)
  IN IF r.m < 0 THEN Add(r, Fl(1, w)) ELSE r

\* The float of a decimal literal n/d, and of an integer
Decimal(n, d) == DivInt(Fl(n, 0), d)
FromInt(n) == Round(Sgn(n), Abs(n), 0, FALSE)

\* ------------------------------------------------------------ the camera
\* coords.py computes with sin, log, exp and atan between a latitude and its
\* Mercator ordinate.  The model carries a latitude as that ordinate,
\* u = log((1 + sin lat) / (1 - sin lat)) / (4 pi), which is 0 on the equator
\* and reaches 1/2 at the top edge of the world; the transcendental functions
\* are taken as exact, the additions and multiplications around them are
\* rounded as the interpreter rounds them.
Half == Fl(1, -1)
\* coords.py:5: 85.05112878 degrees lies just above the top edge, its
\* ordinate is the first float after 1/2.
MAX_LATITUDE == Fl(2^(MantBits - 1) + 1, -MantBits)
\* ascii_map.py:12-13
WORLD_PX_PER_CELL_Y == 1
DEFAULT_PAN_STEP_CELLS == 10
\* webapp.py:7-9, main.py:16-18 (the ordinate of 43.6446 degrees is 0.1350)
START_LAT == Decimal(1350, 10000)
START_LON == Decimal(-793849, 10000)
START_ZOOM == 13

\* TILE_SIZE * 2^zoom is 2^WorldExp(zoom)
WorldExp(zoom) == BitLen(TILE_SIZE) - 1 + zoom

\* coords.py:7-23
latlon_to_world_pixel(lat, lon, zoom) ==
  Once({Once({[x |-> Scale(DivInt(sum, 360), WorldExp(zoom)),
               y |-> Scale(Sub(Half, clipped), WorldExp(zoom))] :
                clipped \in {FMax(low, Neg(MAX_LATITUDE))}}) :
          sum \in {Add(lon, FromInt(180))}, low \in {FMin(lat, MAX_LATITUDE)}})

\* coords.py:25-37
world_pixel_to_latlon(x, y, zoom) ==
  Once({[lon |-> Sub(turns, FromInt(180)),
         lat |-> Sub(Half, Scale(y, -WorldExp(zoom)))] :
          turns \in {MulInt(Scale(x, -WorldExp(zoom)), 360)}})

\* (mutant) the upper clamp is missing
ClampZoomNoCap(zoom) == Max(MIN_ZOOM, zoom)

\* ascii_map.py:96
ClampZoom(zoom) == Max(MIN_ZOOM, Min(zoom, MAX_ZOOM))

\* ascii_map.py:99-100 and 119-120: wrap x, saturate y
WrapX(wx, zoom) == FloatMod(wx, WorldExp(zoom))
ClampY(wy, zoom) ==
  Once({FMax(Zero, low) : low \in {FMin(wy, FromInt(TILE_SIZE * 2^zoom - 1))}})

\* ascii_map.py:95-102, on floats
NormalizeView(lat, lon, zoom_in) ==
  LET zoom == ClampZoom(zoom_in)
  IN Once({Once({Once({[lat |-> ll.lat, lon |-> ll.lon, zoom |-> zoom,
                        wx |-> wx, wy |-> wy,
                        world_size |-> TILE_SIZE * 2^zoom] :
                         ll \in {world_pixel_to_latlon(wx, wy, zoom)}}) :
                   wx \in {WrapX(p.x, zoom)}, wy \in {ClampY(p.y, zoom)}}) :
             p \in {latlon_to_world_pixel(lat, lon, zoom)}})

Directions == {"up", "down", "left", "right"}

\* ascii_map.py:105-121; cell_aspect is the float the caller passes
pan(lat, lon, zoom_in, direction, cell_aspect) ==
  Once({Once({Once({Once({[lat |-> ll.lat, lon |-> ll.lon, zoom |-> nv.zoom,
                           wx |-> wx2, wy |-> wy2,
                           world_size |-> nv.world_size] :
                            ll \in {world_pixel_to_latlon(wx2, wy2, nv.zoom)}}) :
                      wx2 \in {WrapX(wx, nv.zoom)}, wy2 \in {ClampY(wy, nv.zoom)}}) :
                wx \in {IF direction = "left" THEN Sub(nv.wx, move_x)
                        ELSE IF direction = "right" THEN Add(nv.wx, move_x)
                        ELSE nv.wx},
                wy \in {IF direction = "up" THEN Sub(nv.wy, move_y)
                        ELSE IF direction = "down" THEN Add(nv.wy, move_y)
                        ELSE nv.wy}}) :
          nv \in {NormalizeView(lat, lon, zoom_in)},
          move_x \in {MulInt(FMax(Decimal(2, 10), cell_aspect),
                             DEFAULT_PAN_STEP_CELLS)},
          move_y \in {FromInt(DEFAULT_PAN_STEP_CELLS * WORLD_PX_PER_CELL_Y)}})

\* ----------------------------------------------------------- the viewers
\* A viewer holds (lat, lon, zoom, cell_aspect) between two requests:
\* webapp.py sends them with every action and takes them back from the
\* response, main.py keeps them in the locals of its loop (main.py:227-236).
\* Number of viewer actions in one run.
MaxSteps == 2
\* What a first request can ask for: any zoom, latitudes beyond the clip
\* (ordinates -3/4 and 3/4), longitudes outside [-180, 180) or next to the
\* antimeridian (-171.421875 is one pan step of 6.1 pixels east of it at
\* zoom 0), cell aspects below the floor of 0.2.
ZoomInputs == {-3, MAX_ZOOM, 17}
LatInputs == {START_LAT, Fl(3, -2), Fl(-3, -2)}
LonAspectInputs ==
  {<<START_LON, Decimal(6, 10)>>, <<Fl(-10971, -6), Decimal(61, 100)>>,
   <<Decimal(1801, 10), Decimal(6, 10)>>,
   <<Decimal(1799, 10), Decimal(1, 10)>>}
Actions == {"", "reset", "zoom_in", "zoom_out"} \cup Directions

NoCall == [fn |-> "none"]
Called(fn, r) ==
  Once({[fn |-> fn, lat |-> v.lat, lon |-> v.lon, zoom |-> v.zoom, wx |-> v.wx,
         wy |-> v.wy, world_size |-> v.world_size] : v \in {r}})

InitView ==
  /\ InitCommon
  /\ RenderOff
  /\ disk = Dir(<<>>)
  /\ call = <<>>
  /\ \E lat \in LatInputs, la \in LonAspectInputs, zoom \in ZoomInputs :
       view = [lat |-> lat, lon |-> la[1], zoom |-> zoom, aspect |-> la[2],
               n |-> 0, action |-> "none", asked |-> zoom,
               panned |-> NoCall, out |-> NoCall]

\* webapp.py:332-360 (main.py:196-236 is the same on its locals): the zoom
\* is clamped, the action applied, and render_ascii normalizes the view it
\* draws and echoes.
render_payload(action) ==
  /\ view # <<>>
  /\ view.n < MaxSteps
  /\ LET zoom0 == ClampZoom(view.zoom)
         zoom == IF action = "reset" THEN START_ZOOM
                 ELSE IF action = "zoom_in" THEN Min(zoom0 + 1, MAX_ZOOM)
                 ELSE IF action = "zoom_out" THEN Max(zoom0 - 1, MIN_ZOOM)
                 ELSE zoom0
     IN \E z \in {zoom} :
        \E p \in {IF action \in Directions
                     THEN Called("pan", pan(view.lat, view.lon, z, action,
                                            view.aspect))
                     ELSE NoCall} :
        \E lat \in {IF action = "reset" THEN START_LAT
                     ELSE IF action \in Directions THEN p.lat ELSE view.lat},
           lon \in {IF action = "reset" THEN START_LON
                     ELSE IF action \in Directions THEN p.lon ELSE view.lon} :
        \E nv \in {NormalizeView(lat, lon, z)} :
          view' = [lat |-> nv.lat, lon |-> nv.lon, zoom |-> nv.zoom,
                   aspect |-> view.aspect, n |-> view.n + 1,
                   action |-> action, asked |-> view.zoom,
                   panned |-> p, out |-> Called("render_ascii", nv)]
  /\ UNCHANGED <<cache, disk, procVars, loaderVars, histVars, renderVars, call>>

\* One call of a function of ascii_map with the requested view as it is
\* (main.py:45-59 calls render_ascii so); the run ends with it.
CallEnds(r) ==
  /\ view # <<>>
  /\ view.n = 0
  /\ \E out \in {r} :
       view' = [view EXCEPT !.n = MaxSteps, !.action = out.fn, !.out = out]
  /\ UNCHANGED <<cache, disk, procVars, loaderVars, histVars, renderVars, call>>

CallNormalize ==
  CallEnds(Called("normalize_view",
                  NormalizeView(view.lat, view.lon, view.zoom)))

CallPan ==
  \E d \in Directions :
    CallEnds(Called("pan", pan(view.lat, view.lon, view.zoom, d,
                               view.aspect)))

CallRender ==
  CallEnds(Called("render_ascii",
                  NormalizeView(view.lat, view.lon, view.zoom)))

NextView ==
  \/ \E action \in Actions : render_payload(action)
  \/ CallNormalize
  \/ CallPan
  \/ CallRender

SpecView == InitView /\ [][NextView]_vars

\* ------------------------------------------------------------ MVT decoder
\* Bytes are sequences of numbers 0..255; positions count from 0 as in the
\* source.  _parse_message's split of a message into its fields is taken as
\* done: a feature is its tags bytes, its type and its geometry bytes, a
\* layer its name, keys, values, extent and features.

\* mvt_decoder.py:29-39
RECURSIVE ReadVarintFrom(_, _, _, _)
ReadVarintFrom(buf, pos, acc, shift) ==
  IF pos >= Len(buf) THEN [raised |-> TRUE, val |-> 0, pos |-> pos]
  ELSE LET b == buf[pos + 1]
           r == acc + (b % 128) * 2^shift
       IN IF b < 128 THEN [raised |-> FALSE, val |-> r, pos |-> pos + 1]
          ELSE ReadVarintFrom(buf, pos + 1, r, shift + 7)

read_varint(buf, pos) == ReadVarintFrom(buf, pos, 0, 0)

\* mvt_decoder.py:72-80
RECURSIVE PackedFrom(_, _, _)
PackedFrom(buf, pos, values) ==
  IF pos >= Len(buf) THEN [raised |-> FALSE, val |-> values]
  ELSE LET v == read_varint(buf, pos)
       IN IF v.raised THEN [raised |-> TRUE, val |-> <<>>]
          ELSE PackedFrom(buf, v.pos, Append(values, v.val))

decode_packed_uint32(buf) == PackedFrom(buf, 0, <<>>)

\* mvt_decoder.py:85-91
CMD_MOVE_TO == 1
CMD_LINE_TO == 2
CMD_CLOSE_PATH == 7
GEOM_POINT == 1
GEOM_LINESTRING == 2
GEOM_POLYGON == 3

\* (mutant) the sign bit is dropped
ZigZagUnsigned(v) == v \div 2

\* (v >> 1) ^ -(v & 1), mvt_decoder.py:114
ZigZag(v) == IF v % 2 = 0 THEN v \div 2 ELSE -((v + 1) \div 2)

\* mvt_decoder.py:111-121: the pairs of one MoveTo command
RECURSIVE MoveTo(_, _, _)
MoveTo(commands, st, count) ==
  IF count = 0 \/ st.idx + 1 >= Len(commands) THEN st
  ELSE LET cx == st.cx + ZigZag(commands[st.idx + 1])
           cy == st.cy + ZigZag(commands[st.idx + 2])
       IN MoveTo(commands,
                 [idx |-> st.idx + 2, cx |-> cx, cy |-> cy,
                  rings |-> IF st.current # <<>>
                              THEN Append(st.rings, st.current)
                              ELSE st.rings,
                  current |-> << <<cx, cy>> >>],
                 count - 1)

\* mvt_decoder.py:123-131: the pairs of one LineTo command
RECURSIVE LineTo(_, _, _)
LineTo(commands, st, count) ==
  IF count = 0 \/ st.idx + 1 >= Len(commands) THEN st
  ELSE LET cx == st.cx + ZigZag(commands[st.idx + 1])
           cy == st.cy + ZigZag(commands[st.idx + 2])
       IN LineTo(commands,
                 [idx |-> st.idx + 2, cx |-> cx, cy |-> cy,
                  rings |-> st.rings,
                  current |-> Append(st.current, <<cx, cy>>)],
                 count - 1)

\* mvt_decoder.py:133-137
ClosePath(st) ==
  LET closed == IF Len(st.current) >= 2
                  THEN Append(st.current, st.current[1])
                  ELSE st.current
  IN IF st.current = <<>> THEN st
     ELSE [st EXCEPT !.rings = Append(st.rings, closed), !.current = <<>>]

\* mvt_decoder.py:104-137
RECURSIVE CommandLoop(_, _)
CommandLoop(commands, st) ==
  IF st.idx >= Len(commands) THEN st
  ELSE LET cmd_int == commands[st.idx + 1]
           cmd_id == cmd_int % 8
           cmd_count == cmd_int \div 8
           at == [st EXCEPT !.idx = st.idx + 1]
           next == IF cmd_id = CMD_MOVE_TO THEN MoveTo(commands, at, cmd_count)
                   ELSE IF cmd_id = CMD_LINE_TO
                     THEN LineTo(commands, at, cmd_count)
                   ELSE IF cmd_id = CMD_CLOSE_PATH THEN ClosePath(at)
                   ELSE at
       IN CommandLoop(commands, next)

\* mvt_decoder.py:99-140: the rings of a command list
RingsOf(commands) ==
  LET st == CommandLoop(commands, [idx |-> 0, cx |-> 0, cy |-> 0,
                                   rings |-> <<>>, current |-> <<>>])
  IN IF st.current # <<>> THEN Append(st.rings, st.current) ELSE st.rings

\* mvt_decoder.py:187-195; the sum before the division by 2.0, which has the
\* sign of the area
RECURSIVE ShoelaceFrom(_, _)
ShoelaceFrom(ring, i) ==
  IF i > Len(ring) THEN 0
  ELSE LET j == (i % Len(ring)) + 1
       IN ring[i][1] * ring[j][2] - ring[j][1] * ring[i][2]
          + ShoelaceFrom(ring, i + 1)

signed_area(ring) == ShoelaceFrom(ring, 1)

\* mvt_decoder.py:162-178: st.open is current_polygon, <<>> for None (a
\* polygon always holds a ring)
RECURSIVE GroupRings(_, _, _)
GroupRings(rings, i, st) ==
  IF i > Len(rings)
    THEN IF st.open # <<>> THEN Append(st.polygons, st.open) ELSE st.polygons
  ELSE IF signed_area(rings[i]) >= 0
    THEN GroupRings(rings, i + 1,
           [polygons |-> IF st.open # <<>> THEN Append(st.polygons, st.open)
                         ELSE st.polygons,
            open |-> <<rings[i]>>])
  ELSE GroupRings(rings, i + 1,
         [polygons |-> st.polygons, open |-> Append(st.open, rings[i])])

RECURSIVE Flatten(_)
Flatten(rings) ==
  IF rings = <<>> THEN <<>> ELSE Head(rings) \o Flatten(Tail(rings))

\* mvt_decoder.py:147-184
FormatGeometry(rings, geom_type) ==
  IF geom_type = GEOM_POINT
    THEN LET points == Flatten(rings)
         IN IF Len(points) = 1
              THEN [type |-> "Point", coordinates |-> points[1]]
              ELSE [type |-> "MultiPoint", coordinates |-> points]
  ELSE IF geom_type = GEOM_LINESTRING
    THEN IF Len(rings) = 1 THEN LineString(rings[1])
         ELSE [type |-> "MultiLineString", coordinates |-> rings]
  ELSE IF geom_type = GEOM_POLYGON
    THEN LET polygons == GroupRings(rings, 1,
                                    [polygons |-> <<>>, open |-> <<>>])
         IN IF Len(polygons) = 1 THEN Polygon(polygons[1])
            ELSE [type |-> "MultiPolygon", coordinates |-> polygons]
  ELSE [type |-> "Unknown", coordinates |-> <<>>]

\* mvt_decoder.py:94-184 with y_coord_down, as tiles.decode_tile calls it
decode_geometry(geom_data, geom_type) ==
  LET commands == decode_packed_uint32(geom_data)
  IN IF commands.raised THEN [raised |-> TRUE, val |-> <<>>]
     ELSE [raised |-> FALSE,
           val |-> FormatGeometry(RingsOf(commands.val), geom_type)]

\* mvt_decoder.py:262-266: properties[keys[ki]] = values[vi] for the pairs
\* of indices that are in range
RECURSIVE TagsFrom(_, _, _, _, _)
TagsFrom(tag_indices, i, keys, values, properties) ==
  IF i >= Len(tag_indices) - 1 THEN properties
  ELSE LET ki == tag_indices[i + 1]
           vi == tag_indices[i + 2]
       IN TagsFrom(tag_indices, i + 2, keys, values,
            IF ki < Len(keys) /\ vi < Len(values)
              THEN [k \in DOMAIN properties \cup {keys[ki + 1]} |->
                      IF k = keys[ki + 1] THEN values[vi + 1]
                      ELSE properties[k]]
              ELSE properties)

\* mvt_decoder.py:244-273
decode_feature(data, keys, values) ==
  LET tag_indices == IF data.tags # <<>> THEN decode_packed_uint32(data.tags)
                     ELSE [raised |-> FALSE, val |-> <<>>]
      geometry == decode_geometry(data.geometry, data.type)
  IN IF tag_indices.raised \/ geometry.raised
       THEN [raised |-> TRUE, val |-> <<>>]
       ELSE [raised |-> FALSE,
             val |-> Feature(geometry.val,
                             TagsFrom(tag_indices.val, 0, keys, values,
                                      <<>>))]

\* mvt_decoder.py:296-299
RECURSIVE FeaturesFrom(_, _, _)
FeaturesFrom(layer, i, features) ==
  IF i > Len(layer.features) THEN [raised |-> FALSE, val |-> features]
  ELSE LET f == decode_feature(layer.features[i], layer.keys, layer.values)
       IN IF f.raised THEN [raised |-> TRUE, val |-> <<>>]
          ELSE FeaturesFrom(layer, i + 1, Append(features, f.val))

\* mvt_decoder.py:276-301
decode_layer(layer) ==
  LET features == FeaturesFrom(layer, 1, <<>>)
  IN IF features.raised THEN [raised |-> TRUE, val |-> <<>>]
     ELSE [raised |-> FALSE, name |-> layer.name,
           val |-> [extent |-> layer.extent, features |-> features.val]]

\* mvt_decoder.py:304-326: the map from layer names to layers
RECURSIVE LayersFrom(_, _, _)
LayersFrom(tile_bytes, i, layers) ==
  IF i > Len(tile_bytes) THEN [raised |-> FALSE, val |-> layers]
  ELSE LET l == decode_layer(tile_bytes[i])
       IN IF l.raised THEN [raised |-> TRUE, val |-> <<>>]
          ELSE LayersFrom(tile_bytes, i + 1,
                 IF l.name # ""
                   THEN [n \in DOMAIN layers \cup {l.name} |->
                           IF n = l.name THEN l.val ELSE layers[n]]
                   ELSE layers)

decode_layers(tile_bytes) == LayersFrom(tile_bytes, 1, <<>>)

\* tiles.py:58-70: {} (the empty map) for no bytes and for any exception
decode_tile_bytes(tile_bytes) ==
  IF tile_bytes = <<>> THEN <<>>
  ELSE LET decoded == decode_layers(tile_bytes)
       IN IF decoded.raised THEN <<>> ELSE decoded.val

\* ------------------------------------------------- decoder, called alone
\* The encoder side (what a tile server writes), used to build inputs.
Varint(n) == IF n < 128 THEN <<n>> ELSE <<128 + (n % 128), n \div 128>>
RECURSIVE Packed(_)
Packed(values) ==
  IF values = <<>> THEN <<>>
  ELSE Varint(Head(values)) \o Packed(Tail(values))
ZigZagEncode(v) == IF v >= 0 THEN 2 * v ELSE -2 * v - 1
\* A command: its id, its count and the (dx, dy) pairs that follow it.
Command(id, count, pairs) == [id |-> id, count |-> count, pairs |-> pairs]
RECURSIVE EncodePairs(_)
EncodePairs(pairs) ==
  IF pairs = <<>> THEN <<>>
  ELSE <<ZigZagEncode(Head(pairs)[1]), ZigZagEncode(Head(pairs)[2])>>
       \o EncodePairs(Tail(pairs))
RECURSIVE EncodeCommands(_)
EncodeCommands(stream) ==
  IF stream = <<>> THEN <<>>
  ELSE <<Head(stream).count * 8 + Head(stream).id>>
       \o EncodePairs(Head(stream).pairs) \o EncodeCommands(Tail(stream))

\* Longest LineTo of a MoveTo(1), LineTo(k), ClosePath stream.
MaxLineTo == 3
\* Longest stream of arbitrary commands.
MaxCommands == 2
\* Most rings of a polygon feature.
MaxRings == 2

\* Deltas of the ring streams; 70 takes a two-byte varint.
DeltaPairs == {<<4, 0>>, <<0, 4>>, <<-4, 0>>, <<70, -4>>}
SimpleStreams ==
  {<<Command(CMD_MOVE_TO, 1, <<p0>>), Command(CMD_LINE_TO, Len(ps), ps),
     Command(CMD_CLOSE_PATH, 1, <<>>)>> :
     p0 \in DeltaPairs,
     ps \in UNION {[1..k -> DeltaPairs] : k \in 1..MaxLineTo}}

\* Any commands: MoveTo and LineTo of one and two pairs, ClosePath, a MoveTo
\* whose count announces a pair more than it holds, an unknown command id.
AnyCommands ==
  {Command(id, 1, <<p>>) : id \in {CMD_MOVE_TO, CMD_LINE_TO},
                           p \in {<<4, 0>>, <<0, 4>>}}
  \cup {Command(id, 2, <<<<4, 0>>, q>>) : id \in {CMD_MOVE_TO, CMD_LINE_TO},
                                          q \in {<<0, 4>>, <<-4, -4>>}}
  \cup {Command(CMD_CLOSE_PATH, 1, <<>>), Command(CMD_MOVE_TO, 2, <<<<1, 1>>>>),
        Command(3, 0, <<>>)}
AnyStreams == UNION {[1..n -> AnyCommands] : n \in 1..MaxCommands}

\* Rings of a polygon feature: a clockwise square (positive area in the
\* tile's y-down axes), a counter-clockwise one, one of area 0.
RingStream(pairs) ==
  <<Command(CMD_MOVE_TO, 1, <<<<1, 1>>>>), Command(CMD_LINE_TO, Len(pairs), pairs),
    Command(CMD_CLOSE_PATH, 1, <<>>)>>
RingKinds ==
  {RingStream(<<<<4, 0>>, <<0, 4>>, <<-4, 0>>>>),
   RingStream(<<<<0, 4>>, <<4, 0>>, <<0, -4>>>>),
   RingStream(<<<<4, 0>>, <<-4, 0>>>>)}
RingStreams ==
  {Flatten(ringseq) : ringseq \in UNION {[1..n -> RingKinds] : n \in 0..MaxRings}}

GeomTypes == {GEOM_POINT, GEOM_LINESTRING, GEOM_POLYGON, 4}
GeometryInputs ==
  ((SimpleStreams \cup AnyStreams) \X {GEOM_LINESTRING, GEOM_POLYGON})
  \cup (RingStreams \X GeomTypes)

\* A feature message, its fields already split (mvt_decoder.py:251-257).
FeatureData(tags, type, geometry) ==
  [tags |-> tags, type |-> type, geometry |-> geometry]
\* A well-formed feature: one tag pair, a line of two points.
GoodFeature(ki, dx) ==
  FeatureData(Packed(<<ki, 0>>), GEOM_LINESTRING,
              Packed(EncodeCommands(
                <<Command(CMD_MOVE_TO, 1, <<<<1, 1>>>>),
                  Command(CMD_LINE_TO, 1, <<<<dx, 0>>>>)>>)))
\* How the feature under test is damaged: not at all, or its geometry or its
\* tags end in a byte that announces a continuation that is not there.
Corruptions == {"none", "geometry", "tags"}
TestFeature(stream, geom_type, corrupt) ==
  FeatureData(IF corrupt = "tags" THEN <<0, 128>> ELSE Packed(<<0, 0>>),
              geom_type,
              Packed(EncodeCommands(stream))
              \o (IF corrupt = "geometry" THEN <<128>> ELSE <<>>))
\* A tile of two layers, the feature under test between two well-formed
\* ones in the first.
TestTile(stream, geom_type, corrupt) ==
  <<[name |-> "water", keys |-> <<"class", "name">>, values |-> <<"lake">>,
     extent |-> EXTENT,
     features |-> <<GoodFeature(0, 4),
                    TestFeature(stream, geom_type, corrupt),
                    GoodFeature(1, 6)>>],
    [name |-> "roads", keys |-> <<"class">>, values |-> <<"street">>,
     extent |-> EXTENT, features |-> <<GoodFeature(0, 8)>>]>>

InitDecode ==
  /\ InitCommon
  /\ RenderOff
  /\ disk = Dir(<<>>)
  /\ view = <<>>
  /\ \E g \in GeometryInputs :
       call = [fn |-> "none", stream |-> g[1], geom_type |-> g[2]]

Returns(fn, args, out) ==
  /\ call # <<>>
  /\ call.fn = "none"
  /\ call' = [fn |-> fn, stream |-> call.stream, geom_type |-> call.geom_type,
              args |-> args, out |-> out]
  /\ UNCHANGED <<cache, disk, procVars, loaderVars, histVars, renderVars, view>>

\* mvt_decoder.py:94-184 on the bytes of the stream
DecodeGeometry ==
  LET geom_data == Packed(EncodeCommands(call.stream))
  IN Returns("decode_geometry", geom_data,
             decode_geometry(geom_data, call.geom_type))

\* tiles.py:58-70 on a tile that holds the stream as one of its features
DecodeTile ==
  \E corrupt \in Corruptions :
    Returns("decode_tile", corrupt,
            decode_tile_bytes(TestTile(call.stream, call.geom_type, corrupt)))

NextDecode == DecodeGeometry \/ DecodeTile
SpecDecode == InitDecode /\ [][NextDecode]_vars


\* ------------------------------------------ draw_polygon_filled, called alone
\* Side of the lattice the vertices of the hole are taken from.
FillSide == 3
\* The outer ring is the rectangle (0, 0)-(3 * FillSide + 1, 2 * FillSide + 2);
\* the lattice lies strictly inside it.  Rings are given closed or open.
OuterRing ==
  <<<<0, 0>>, <<3 * FillSide + 1, 0>>, <<3 * FillSide + 1, 2 * FillSide + 2>>,
    <<0, 2 * FillSide + 2>>>>
Lattice == {<<2 + 3 * i, 2 + 2 * j>> : i \in 0..(FillSide - 1), j \in 0..(FillSide - 1)}
\* Twice the signed area of the triangle a, b, c.
Cross(a, b, c) == (b[1] - a[1]) * (c[2] - a[2]) - (c[1] - a[1]) * (b[2] - a[2])
HoleRings ==
  {t \in Lattice \X Lattice \X Lattice : Cross(t[1], t[2], t[3]) # 0}
Backgrounds == {" ", "~"}

InitFill ==
  /\ InitCommon
  /\ RenderOff
  /\ disk = Dir(<<>>)
  /\ view = <<>>
  /\ \E hole \in HoleRings, closed \in BOOLEAN, bg \in Backgrounds :
       call = [fn |-> "none",
               rings |-> IF closed
                           THEN <<Append(OuterRing, OuterRing[1]), Append(hole, hole[1])>>
                           ELSE <<OuterRing, hole>>,
               buffer |-> Framebuffer(3 * FillSide + 2, 2 * FillSide + 3, bg)]

\* render.py:43-77 on the two rings
DrawPolygonFilled ==
  /\ call # <<>>
  /\ call.fn = "none"
  /\ call' = [call EXCEPT !.fn = "draw_polygon_filled",
                          !.buffer = draw_polygon_filled(call.buffer, call.rings, "#")]
  /\ UNCHANGED <<cache, disk, procVars, loaderVars, histVars, renderVars, view>>

NextFill == DrawPolygonFilled
SpecFill == InitFill /\ [][NextFill]_vars

\* ------------------------------------------------- draw_line, turn by turn
\* Size of the framebuffer a line is drawn on, and how far outside of it the
\* end points of the line can lie.
LineCols == 4
LineRows == 3
LineReach == 2
LinePoints ==
  (-LineReach..(LineCols - 1 + LineReach)) \X (-LineReach..(LineRows - 1 + LineReach))

\* render.py:19-25: the call has computed dx, dy, sx, sy and err and stands
\* before the first turn of the loop.  `cells` is the history of the
\* positions handed to set_char, `blank` the buffer before the call.
InitLine ==
  /\ InitCommon
  /\ RenderOff
  /\ disk = Dir(<<>>)
  /\ view = <<>>
  /\ \E from \in LinePoints, to \in LinePoints, bg \in Backgrounds :
       \E buf \in {Framebuffer(LineCols, LineRows, bg)} :
         call = [fn |-> "draw_line", x0 |-> from[1], y0 |-> from[2],
                 x1 |-> to[1], y1 |-> to[2], blank |-> buf,
                 s |-> [buf |-> buf, x0 |-> from[1], y0 |-> from[2],
                        err |-> Abs(to[1] - from[1]) - Abs(to[2] - from[2]),
                        done |-> FALSE],
                 cells |-> <<>>, turns |-> 0]

\* render.py:27-37: one turn of `while True`
LineTurn ==
  /\ call # <<>>
  /\ call.fn = "draw_line"
  /\ ~call.s.done
  /\ call' = [call EXCEPT
                !.s = LineStep(@, call.x1, call.y1,
                               Abs(call.x1 - call.x0), Abs(call.y1 - call.y0),
                               IF call.x0 < call.x1 THEN 1 ELSE -1,
                               IF call.y0 < call.y1 THEN 1 ELSE -1, "#"),
                !.cells = Append(@, <<call.s.x0, call.s.y0>>),
                !.turns = @ + 1]
  /\ UNCHANGED <<cache, disk, procVars, loaderVars, histVars, renderVars, view>>

NextLine == LineTurn
SpecLine == InitLine /\ [][NextLine]_vars

\* ---------------------------------------------- simplify_points, called alone
\* Numbers of vertices around MAX_GEOM_POINTS and its multiples.
SimplifyLengths ==
  (MAX_GEOM_POINTS - 5)..(MAX_GEOM_POINTS + 5)
  \cup (2 * MAX_GEOM_POINTS - 5)..(2 * MAX_GEOM_POINTS + 5)
  \cup {3 * MAX_GEOM_POINTS, 3 * MAX_GEOM_POINTS + 1}
\* A line of n distinct vertices; a ring, whose last vertex is its first; a
\* line whose last two vertices are equal.
PointKinds == {"line", "ring", "stub"}
Points(kind, n) ==
  [i \in 1..n |->
     IF kind = "ring" /\ i = n THEN <<1, 1>>
     ELSE IF kind = "stub" /\ i = n THEN <<n - 1, (n - 1) % 7>>
     ELSE <<i, i % 7>>]

\* `given` is the list the caller holds (a ring or line of the cached decoded
\* tile), `points` what that list holds now.
InitSimplify ==
  /\ InitCommon
  /\ RenderOff
  /\ disk = Dir(<<>>)
  /\ view = <<>>
  /\ \E n \in SimplifyLengths, kind \in PointKinds,
        zoom \in {GEOM_SIMPLIFY_ZOOM - 1, GEOM_SIMPLIFY_ZOOM} :
       \E pts \in {Points(kind, n)} :
         call = [fn |-> "none", zoom |-> zoom, given |-> pts, points |-> pts,
                 out |-> <<>>]

\* ascii_map.py:149-156: `points[::step]` is a new list and the append is
\* made to it, so the list of the caller keeps its content
Simplify ==
  /\ call # <<>>
  /\ call.fn = "none"
  /\ call' = [call EXCEPT !.fn = "simplify_points",
                          !.out = simplify_points([zoom |-> call.zoom], call.points)]
  /\ UNCHANGED <<cache, disk, procVars, loaderVars, histVars, renderVars, view>>

NextSimplify == Simplify
SpecSimplify == InitSimplify /\ [][NextSimplify]_vars

\* ================================================================ claims
AllIdle == \A p \in Threads : pc[p] = "idle"
Pos(u, k) == CHOOSE i \in DOMAIN u : u[i] = k
\* The n most recently used keys.
MostRecent(u, n) == {u[i] : i \in {j \in DOMAIN u : j > Len(u) - n}}

\* C1: between calls the LRU never holds more than MAX_TILE_CACHE entries;
\* once more than MAX_TILE_CACHE distinct keys have been asked for it holds
\* exactly MAX_TILE_CACHE, and its keys are the most recently used ones.
C1_CacheBounded ==
  AllIdle =>
    /\ Len(cache) <= MAX_TILE_CACHE
    /\ Len(used) > MAX_TILE_CACHE => Len(cache) = MAX_TILE_CACHE
    /\ CacheKeys(cache) = MostRecent(used, MAX_TILE_CACHE)
    /\ Cardinality(CacheKeys(cache)) = Len(cache)

C1_Witness ==
  /\ AllIdle
  /\ Len(used) > MAX_TILE_CACHE
  /\ Len(cache) = MAX_TILE_CACHE
  /\ \E k \in Keys : evicts[k] > 0

\* C2: the entry evicted on overflow is the one whose last get (hit or
\* insert) is oldest: it was used before every entry that stays.
C2_EvictsLeastRecent ==
  [][\A k \in CacheKeys(cache) \ CacheKeys(cache') :
       \A j \in CacheKeys(cache') : Pos(used, k) < Pos(used, j)]_vars

\* key 1 was inserted first and then hit; the eviction took key 2
C2_Witness ==
  /\ AllIdle
  /\ calls = 4
  /\ used = <<Key(2), Key(1), Key(3)>>
  /\ inserts[Key(1)] = 1 /\ evicts[Key(1)] = 0
  /\ evicts[Key(2)] = 1
  /\ CacheKeys(cache) = {Key(1), Key(3)}

\* C3: callers racing on one absent key make one fetch and one insert: a key
\* is fetched and inserted at most once more than it was evicted.
C3_OneInsertPerMiss ==
  \A k \in Keys :
    /\ inserts[k] <= evicts[k] + 1
    /\ fetched[k] <= evicts[k] + 1

\* What fetch_tile returned is a failure: None, no bytes, or bytes on which
\* the decoder raises.
Failed(r) == ~Truthy(r) \/ decode(r).raised

\* C4: a tile whose fetch or decoding failed yields the empty map, which is
\* in the LRU when the call returns; a call that finds its key in the LRU
\* returns the cached value, and no fetch is made for a key the LRU holds.
C4_FailureCached ==
  [][/\ \A k \in Keys : fetched'[k] > fetched[k] => ~Has(cache, k)
     /\ \A p \in Threads :
          (pc[p] # "idle" /\ pc'[p] = "idle") =>
            /\ (~hit[p] /\ Failed(raw[p])) =>
                 /\ rv'[p] = EMPTY
                 /\ Has(cache', tkey[p])
                 /\ Lookup(cache', tkey[p]) = EMPTY
            /\ hit[p] => /\ Has(cache', tkey[p])
                         /\ rv'[p] = Lookup(cache', tkey[p])
                         /\ fetched'[tkey[p]] = fetched[tkey[p]]]_vars

\* a second call for a key whose only fetch failed was a hit and returned the
\* empty map
C4_Witness ==
  \E p \in Threads :
    /\ pc[p] = "idle"
    /\ hit[p]
    /\ rv[p] = EMPTY
    /\ Has(cache, tkey[p])
    /\ Lookup(cache, tkey[p]) = EMPTY
    /\ fetched[tkey[p]] = 1
    /\ inserts[tkey[p]] = 1

\* C5: no read of the disk cache hands the content of a zero-byte file to the
\* decoder or returns it as the tile's bytes.
C5_ZeroByteIsMiss == zeroRead = {}

\* ------------------------------------------------------------------ render
Rendering == rpc \notin {"off", "start"}
Returned == rpc = "returned"
\* the character of the returned text at column x of line y, all lines
\* having w characters
TextAt(text, w, x, y) == text[y * (w + 1) + x + 1]
CenterX == rs.width \div 2
CenterY == rs.height \div 2

\* C6: render_ascii never raises: whatever the view, whatever the port
\* returns (tiles with a layer extent of 0 included) and whatever fetch fails,
\* the call ends by returning a result.
C6_NeverRaises == rpc # "raised"

\* C7: the returned text has exactly `height` lines of exactly `width`
\* characters, width and height being the requested ones clamped to [20, 320]
\* and [10, 140], and no drawing step changes the number of rows of the
\* framebuffer or the length of a row.
C7_TextShape ==
  LET w == Max(20, Min(TruncDiv(rq.w10, 10), 320))
      h == Max(10, Min(TruncDiv(rq.h10, 10), 140))
  IN /\ Rendering =>
          /\ Len(buffer) = h
          /\ \A y \in DOMAIN buffer : Len(buffer[y]) = w
     /\ Returned =>
          /\ result.width = w
          /\ result.height = h
          /\ Len(result.text) = h * (w + 1) - 1
          /\ \A i \in DOMAIN result.text :
               (result.text[i] = "\n") <=> (i % (w + 1) = 0)

\* a request of 500 x 3 cells came back as 320 x 10 with fills, outlines,
\* lines and two labels drawn
C7_Witness ==
  /\ Returned
  /\ rq.w10 = 5000 /\ rq.h10 = 30
  /\ result.width = 320 /\ result.height = 10
  /\ Len(rs.placed) = 2
  /\ \A layer \in 1..8 : \E y \in DOMAIN ztop : \E x \in DOMAIN ztop[y] :
       layer \in ztop[y][x].layers

\* C8: in every result the character at column width \div 2 of line
\* height \div 2 is the center marker, whatever was drawn on that cell.
C8_CenterMarker ==
  Returned => TextAt(result.text, result.width, result.width \div 2,
                     result.height \div 2) = GLYPH_CENTER

\* the green fill, a road and a label wrote the centre cell before the marker
C8_Witness ==
  /\ Returned
  /\ {1, 5, 7, 8} \subseteq ztop[CenterY + 1][CenterX + 1].layers
  /\ TextAt(result.text, rs.width, CenterX, CenterY) = GLYPH_CENTER

\* C9: over the whole viewport a cell written by several layers shows, in the
\* result, a glyph written by the latest of them in the order greens, water
\* fill, water outline, buildings, roads, waterways, labels, center marker.
C9_LayerOrder ==
  Returned =>
    \A y \in DOMAIN ztop : \A x \in DOMAIN ztop[y] :
      ztop[y][x].rank > 0 => buffer[y][x] \in ztop[y][x].glyphs

\* The texts of the candidates and the places of the framebuffer where a
\* text reads.
CandTexts == {rs.cands[i].text : i \in DOMAIN rs.cands}
ReadsAt(buf, text, x, y) ==
  /\ x + Len(text) <= Len(buf[y])
  /\ \A i \in DOMAIN text : buf[y][x + i] = text[i]
Places(buf, text) ==
  {<<x, y>> \in (0..(FbWidth(buf) - 1)) \X (1..FbHeight(buf)) : ReadsAt(buf, text, x, y)}

\* C10: draw_street_labels stamps a text at most once, however many
\* candidates carry it: the list of placed labels names it at most once and
\* the framebuffer, blank before, reads it in at most one place.
C10_LabelOnce ==
  rpc = "center" =>
    /\ \A i, j \in DOMAIN rs.placed :
         rs.placed[i].text = rs.placed[j].text => i = j
    /\ \A text \in CandTexts : Cardinality(Places(buffer, text)) <= 1

\* two candidates of one name, six rows apart, both with room: one is placed
C10_Witness ==
  /\ rpc = "center"
  /\ Len(rs.cands) = 2
  /\ rs.cands[1].text = rs.cands[2].text
  /\ {rs.cands[1].y, rs.cands[2].y} = {2, 8}
  /\ rs.cands[1].x = 10 /\ rs.cands[2].x = 10
  /\ Len(rs.placed) = 1
  /\ Cardinality(Places(buffer, rs.cands[1].text)) = 1

\* ------------------------------------------------------------- the camera
Viewing == view # <<>> /\ view.out.fn # "none"
\* The calls of the last step that returned a camera.
Cameras == {r \in {view.out, view.panned} : r.fn # "none"}

\* C11: whatever zoom was requested and whatever actions followed, every
\* call of pan, normalize_view and render_ascii uses and returns an integer
\* zoom in [0, 14], the viewer holds that zoom afterwards, zoom_in at 14 (or
\* above) yields 14 and zoom_out at 0 (or below) yields 0.
C11_ZoomInRange ==
  Viewing =>
    /\ \A r \in Cameras : r.zoom \in MIN_ZOOM..MAX_ZOOM
    /\ view.action \in Actions => view.zoom = view.out.zoom
    /\ view.action = "zoom_in" /\ view.asked >= MAX_ZOOM
         => view.out.zoom = MAX_ZOOM
    /\ view.action = "zoom_out" /\ view.asked <= MIN_ZOOM
         => view.out.zoom = MIN_ZOOM

C11_Witness ==
  /\ Viewing
  /\ view.n = 2
  /\ view.action = "zoom_in"
  /\ view.asked = MAX_ZOOM
  /\ view.zoom = MAX_ZOOM

\* C12: normalize_view applied to the (lat, lon, zoom) it returned gives the
\* same lat, lon, zoom, wx, wy and world_size again.
C12_Idempotent ==
  Viewing /\ view.out.fn \in {"normalize_view", "render_ascii"} =>
    Called(view.out.fn,
           NormalizeView(view.out.lat, view.out.lon, view.out.zoom))
      = view.out

\* C13: the camera that normalize_view and pan return satisfies
\* 0 <= wx < world_size and 0 <= wy <= world_size - 1, and its longitude
\* lies in [-180, 180).
C13_CameraInWorld ==
  Viewing =>
    \A r \in Cameras :
      /\ ~Less(r.wx, Zero) /\ Less(r.wx, FromInt(r.world_size))
      /\ ~Less(r.wy, Zero) /\ ~Less(FromInt(r.world_size - 1), r.wy)
      /\ ~Less(r.lon, FromInt(-180)) /\ Less(r.lon, FromInt(180))

DecodedTile == call # <<>> /\ call.fn = "decode_tile"
FeaturesOf(layers, name) ==
  IF name \in DOMAIN layers THEN layers[name].features ELSE <<>>
Holds(features, f) == \E i \in 1..Len(features) : features[i] = f
Line(dx) == LineString(<<<<1, 1>>, <<1 + dx, 1>>>>)
\* C14: a malformed feature is skipped without aborting the layer: after
\* decode_tile on a tile whose first layer holds a feature with a truncated
\* varint in its tags or geometry, the two well-formed features of that layer
\* and the feature of the other layer are in the decoded result.
C14_OthersDecoded ==
  DecodedTile =>
    /\ Holds(FeaturesOf(call.out, "water"), Feature(Line(4), [class |-> "lake"]))
    /\ Holds(FeaturesOf(call.out, "water"), Feature(Line(6), [name |-> "lake"]))
    /\ FeaturesOf(call.out, "roads") = <<Feature(Line(8), [class |-> "street"])>>

DecodedGeometry == call # <<>> /\ call.fn = "decode_geometry"
WellFormed(stream) ==
  \A i \in 1..Len(stream) :
    /\ stream[i].id \in {CMD_MOVE_TO, CMD_LINE_TO, CMD_CLOSE_PATH}
    /\ stream[i].id = CMD_CLOSE_PATH => stream[i].pairs = <<>>
    /\ stream[i].id # CMD_CLOSE_PATH => stream[i].count = Len(stream[i].pairs)
MoveLineClose(stream) ==
  /\ WellFormed(stream)
  /\ Len(stream) = 3
  /\ stream[1].id = CMD_MOVE_TO /\ stream[1].count = 1
  /\ stream[2].id = CMD_LINE_TO /\ stream[2].count >= 1
  /\ stream[3].id = CMD_CLOSE_PATH
\* The rings of a decoded line or polygon geometry, in order.
RingsIn(geometry) ==
  IF geometry.type = "LineString" THEN <<geometry.coordinates>>
  ELSE IF geometry.type = "Polygon" THEN geometry.coordinates
  ELSE IF geometry.type = "MultiPolygon" THEN Flatten(geometry.coordinates)
  ELSE geometry.coordinates
RECURSIVE SumTo(_, _)
SumTo(pairs, i) ==
  IF i = 0 THEN <<0, 0>>
  ELSE <<SumTo(pairs, i - 1)[1] + pairs[i][1], SumTo(pairs, i - 1)[2] + pairs[i][2]>>
\* What the commands say, one pair at a time: st is <<cursor, rings, ring>>.
RECURSIVE ExpectedFrom(_, _, _, _)
ExpectedFrom(stream, i, j, st) ==
  IF i > Len(stream) THEN IF st[3] # <<>> THEN Append(st[2], st[3]) ELSE st[2]
  ELSE IF stream[i].id = CMD_CLOSE_PATH
    THEN ExpectedFrom(stream, i + 1, 1,
           IF st[3] = <<>> THEN st
           ELSE <<st[1],
                  Append(st[2], IF Len(st[3]) >= 2 THEN Append(st[3], st[3][1])
                                ELSE st[3]),
                  <<>>>>)
  ELSE IF j > Len(stream[i].pairs) THEN ExpectedFrom(stream, i + 1, 1, st)
  ELSE LET at == <<st[1][1] + stream[i].pairs[j][1], st[1][2] + stream[i].pairs[j][2]>>
       IN ExpectedFrom(stream, i, j + 1,
            IF stream[i].id = CMD_MOVE_TO
              THEN <<at, IF st[3] # <<>> THEN Append(st[2], st[3]) ELSE st[2], <<at>>>>
              ELSE <<at, st[2], Append(st[3], at)>>)
\* C15: for MoveTo(1), LineTo(k >= 1), ClosePath, decode_geometry yields one
\* ring of k+2 vertices, the running sums of the deltas, the last equal to the
\* first; for any well-formed stream the cursor persists across commands,
\* each MoveTo pair pushes the ring in progress and starts one, and ClosePath
\* appends the first vertex only to a ring of at least 2 vertices.
C15_RunningSums ==
  DecodedGeometry /\ call.geom_type \in {GEOM_LINESTRING, GEOM_POLYGON} =>
    /\ ~call.out.raised
    /\ MoveLineClose(call.stream) =>
         LET k == call.stream[2].count
             deltas == call.stream[1].pairs \o call.stream[2].pairs
             rings == RingsIn(call.out.val)
         IN /\ Len(rings) = 1
            /\ Len(rings[1]) = k + 2
            /\ \A i \in 1..(k + 1) : rings[1][i] = SumTo(deltas, i)
            /\ rings[1][k + 2] = rings[1][1]
    /\ WellFormed(call.stream) =>
         RingsIn(call.out.val) = ExpectedFrom(call.stream, 1, 1, <<<<0, 0>>, <<>>, <<>>>>)
C15_Witness ==
  /\ DecodedGeometry
  /\ call.geom_type = GEOM_POLYGON
  /\ call.stream = RingStream(<<<<4, 0>>, <<0, 4>>, <<-4, 0>>>>)
  /\ call.out.val = Polygon(<<<<<<1, 1>>, <<5, 1>>, <<5, 5>>, <<1, 5>>, <<1, 1>>>>>>)

PolygonsIn(geometry) ==
  IF geometry.type = "Polygon" THEN <<geometry.coordinates>>
  ELSE geometry.coordinates
\* C16: each polygon the decoder emits for a Polygon-typed feature has a ring
\* of signed area >= 0 as ring 0 and only rings of signed area < 0 after it,
\* and the result is a Polygon when there is exactly one group and a
\* MultiPolygon otherwise.
C16_ExteriorFirst ==
  DecodedGeometry /\ call.geom_type = GEOM_POLYGON /\ ~call.out.raised =>
    LET polygons == PolygonsIn(call.out.val)
    IN /\ call.out.val.type \in {"Polygon", "MultiPolygon"}
       /\ call.out.val.type = "Polygon" <=> Len(polygons) = 1
       /\ \A n \in 1..Len(polygons) :
            /\ signed_area(polygons[n][1]) >= 0
            /\ \A i \in 2..Len(polygons[n]) : signed_area(polygons[n][i]) < 0

Filled == call # <<>> /\ call.fn = "draw_polygon_filled"
\* Cell (x, y) is strictly inside the triangle t.
StrictlyInside(x, y, t) ==
  LET c1 == Cross(t[1], t[2], <<x, y>>)
      c2 == Cross(t[2], t[3], <<x, y>>)
      c3 == Cross(t[3], t[1], <<x, y>>)
  IN (c1 > 0 /\ c2 > 0 /\ c3 > 0) \/ (c1 < 0 /\ c2 < 0 /\ c3 < 0)
\* C17: draw_polygon_filled is an even-odd fill: for an outer ring with a
\* hole strictly inside it, every cell strictly inside the hole keeps its
\* previous content, every filled cell lies between two consecutive crossings
\* of odd-then-even rank on its scanline, and the number of crossings
\* collected on every scanline is even.
C17_EvenOddFill ==
  Filled =>
    LET hole == SubSeq(call.rings[2], 1, 3)
        w == FbWidth(call.buffer)
    IN \A y \in 0..(FbHeight(call.buffer) - 1) :
         LET nodes == SortInts(ScanNodes(call.rings, y, 1))
         IN /\ Len(nodes) % 2 = 0
            /\ \A x \in 0..(w - 1) :
                 /\ StrictlyInside(x, y, hole) => call.buffer[y + 1][x + 1] \in Backgrounds
                 /\ call.buffer[y + 1][x + 1] = "#" =>
                      \E i \in 1..(Len(nodes) \div 2) :
                        nodes[2 * i - 1] <= x /\ x <= nodes[2 * i]

\* C18: disk cache writes are best-effort: when the port returned the bytes
\* and creating the directories or opening the cache file fails, fetch_tile
\* does not raise and returns the bytes it fetched, which are then decoded
\* and used for the tile.
C18_WriteBestEffort ==
  [][\A p \in Procs :
       pc[p] = "ft_openw" /\ pc'[p] \notin {"ft_openw", "ft_write"} =>
         /\ rv'[p] # "raised"
         /\ raw'[p] = raw[p]]_vars

InWorld(key) ==
  /\ 0 <= key[1] /\ key[1] <= 14
  /\ 0 <= key[2] /\ key[2] < 2 ^ key[1]
  /\ 0 <= key[3] /\ key[3] < 2 ^ key[1]
InTileLoop == rpc \notin {"off", "start"} /\ rs # <<>>
\* C19: every tile key (z, x, y) render_ascii passes to get_decoded_tile, and
\* every key rendering has stored in the LRU, has 0 <= z <= 14, 0 <= x < 2^z
\* and 0 <= y < 2^z: rows outside the world are skipped, columns wrapped.
C19_TileKeysInWorld ==
  InTileLoop =>
    /\ \A i \in 1..Len(TileLoop(rs)) : InWorld(TileKey(rs, TileLoop(rs)[i]))
    /\ \A i \in 1..Len(cache) : InWorld(cache[i].key)
C19_Witness ==
  /\ InTileLoop
  /\ max_tx(rs) >= 2 ^ rs.zoom
  /\ min_ty(rs) < 0
  /\ rs.idx > Len(TileLoop(rs))
  /\ Len(TileLoop(rs)) = 2
  /\ Len(cache) = 1

Labelled == rpc = "center" /\ rq.show
\* The cells of a placed label, and the label with a margin of one cell.
Cells(p) == {<<x, p.y>> : x \in p.start_x..p.end_x}
Padded(p) == {<<x, y>> : x \in (p.start_x - 1)..(p.end_x + 1), y \in (p.y - 1)..(p.y + 1)}
\* The sort key (priority, sy, sx) of a candidate, as one number.
SortKey(c) == (c.prio * 1000 + c.y) * 1000 + c.x
StartX(c) == c.x - (Len(c.text) \div 2)
AsPlaced(c) ==
  [text |-> c.text, start_x |-> StartX(c), end_x |-> StartX(c) + Len(c.text) - 1,
   y |-> c.y]
\* The candidates a placed label can have come from, and the first of them.
From(p) == {i \in DOMAIN rs.cands : AsPlaced(rs.cands[i]) = p}
KeyOf(p) == MinOf({SortKey(rs.cands[i]) : i \in From(p)})
\* C20: the labels draw_street_labels places never collide (no cell of one
\* lies inside the 1-cell-padded box of another), each has start_x >= 1,
\* end_x <= width - 2 and 1 <= y <= height - 2, and the candidates are taken
\* in ascending (priority, sy, sx) order: a candidate that would fit and is
\* not placed is blocked by a placed label that sorts before it.
C20_LabelsApart ==
  Labelled =>
    /\ \A i, j \in DOMAIN rs.placed :
         i # j => Cells(rs.placed[i]) \cap Padded(rs.placed[j]) = {}
    /\ \A i \in DOMAIN rs.placed :
         /\ rs.placed[i].start_x >= 1
         /\ rs.placed[i].end_x <= rs.width - 2
         /\ 1 <= rs.placed[i].y /\ rs.placed[i].y <= rs.height - 2
         /\ From(rs.placed[i]) # {}
    /\ \A i, j \in DOMAIN rs.placed :
         i < j => KeyOf(rs.placed[i]) <= KeyOf(rs.placed[j])
    /\ \A n \in DOMAIN rs.cands :
         LET c == AsPlaced(rs.cands[n])
         IN \/ \E i \in DOMAIN rs.placed : rs.placed[i] = c
            \/ c.start_x < 1 \/ c.end_x > rs.width - 2
            \/ c.y < 1 \/ c.y > rs.height - 2
            \/ \E i \in DOMAIN rs.placed :
                 /\ KeyOf(rs.placed[i]) <= SortKey(rs.cands[n])
                 /\ \/ rs.placed[i].text = c.text
                    \/ Padded(rs.placed[i]) \cap Padded(c) # {}
\* two labels on one row that would touch: the one of higher priority is
\* placed although it comes second in the list, the other is not
C20_Witness ==
  /\ Labelled
  /\ Len(rs.cands) = 2
  /\ rs.cands[1].prio > rs.cands[2].prio
  /\ rs.cands[1].text # rs.cands[2].text
  /\ rs.cands[1].y = rs.cands[2].y
  /\ rs.placed = <<AsPlaced(rs.cands[2])>>

\* ------------------------------------------------------------------- C21
\* C21: during one render the list of street-label candidates never holds
\* more than MAX_LABEL_CANDIDATES entries, however many tiles the view covers
\* and however many named roads each tile has.
C21_CandidatesCapped ==
  (rpc \notin {"off", "start"}) => Len(rs.cands) <= MAX_LABEL_CANDIDATES

\* ------------------------------------------------------------------- C22
\* The cell of column x of row y lies inside the buffer.
InBuffer(buf, x, y) == 0 <= x /\ x < FbWidth(buf) /\ 0 <= y /\ y < FbHeight(buf)
Visited == {call.cells[i] : i \in DOMAIN call.cells}

\* C22: for every pair of integer end points draw_line terminates (the loop
\* never runs more than dx + dy + 1 turns), hands set_char only positions
\* inside the bounding box of the end points, starting with the first end
\* point and, when the loop has ended, ending with the second, moves by at
\* most one cell in x and in y from one turn to the next, writes every
\* visited position that lies in the buffer (both end points among them),
\* keeps the size of the buffer and leaves every cell it did not visit as it
\* was; what the turns leave is what draw_line returns.
C22_LineDrawn ==
  LET c == call
      n == Len(c.cells)
  IN /\ c.turns <= Abs(c.x1 - c.x0) + Abs(c.y1 - c.y0) + 1
     /\ \A i \in 1..n :
          /\ Min(c.x0, c.x1) <= c.cells[i][1] /\ c.cells[i][1] <= Max(c.x0, c.x1)
          /\ Min(c.y0, c.y1) <= c.cells[i][2] /\ c.cells[i][2] <= Max(c.y0, c.y1)
     /\ \A i \in 1..(n - 1) :
          /\ Abs(c.cells[i + 1][1] - c.cells[i][1]) <= 1
          /\ Abs(c.cells[i + 1][2] - c.cells[i][2]) <= 1
          /\ c.cells[i + 1] # c.cells[i]
     /\ n > 0 => c.cells[1] = <<c.x0, c.y0>>
     /\ c.s.done =>
          /\ c.cells[n] = <<c.x1, c.y1>>
          /\ InBuffer(c.blank, c.x0, c.y0) => c.s.buf[c.y0 + 1][c.x0 + 1] = "#"
          /\ InBuffer(c.blank, c.x1, c.y1) => c.s.buf[c.y1 + 1][c.x1 + 1] = "#"
          /\ c.s.buf = draw_line(c.blank, c.x0, c.y0, c.x1, c.y1, "#")
     /\ DOMAIN c.s.buf = DOMAIN c.blank
     /\ \A y \in 0..(LineRows - 1) :
          /\ DOMAIN c.s.buf[y + 1] = DOMAIN c.blank[y + 1]
          /\ \A x \in 0..(LineCols - 1) :
               c.s.buf[y + 1][x + 1] =
                 IF <<x, y>> \in Visited THEN "#" ELSE c.blank[y + 1][x + 1]

\* A line up and to the left between two cells of the buffer has been drawn
\* in four turns.
C22_Witness ==
  /\ call.s.done
  /\ <<call.x0, call.y0>> = <<3, 2>>
  /\ <<call.x1, call.y1>> = <<0, 0>>
  /\ call.turns = 4
  /\ call.s.buf[1][1] = "#"
  /\ call.s.buf[3][4] = "#"

\* ------------------------------------------------------------------- C23
\* Caller q has opened the cache file of key k for writing and has not
\* written all of it yet.
Writing(q, k) == pc[q] = "ft_write" /\ tkey[q] = k

\* C23: under concurrent fetch_tile calls the cache file is never seen torn:
\* a call that reads the cache file gets all the bytes of a fetch, never a
\* strict prefix of them, and the removal of a zero-byte file never removes a
\* file that another caller has opened and is still writing.
C23_NoTornFile ==
  [][\A p \in Procs :
       /\ (pc[p] = "ft_read" /\ raw'[p] # raw[p]) => raw'[p].len = FullLen
       /\ (pc[p] = "ft_remove" /\ pc'[p] # "ft_remove") =>
            \A q \in Procs \ {p} : ~(Writing(q, tkey[p]) /\ linked[q])]_vars

\* ------------------------------------------------------------------- C24
\* C24: under concurrent get_decoded_tile calls a key that the membership
\* test found is still in the cache when move_to_end and the lookup run: the
\* call of a caller that found its key never ends with a missing-key error.
C24_HitStaysPresent ==
  [][\A p \in Threads :
       (hit[p] /\ pc[p] \in {"gd_move", "gd_read"}) =>
         /\ Has(cache, tkey[p])
         /\ rv'[p] # "raised"]_vars

\* ------------------------------------------------------------------- C25
\* Fetches of key k that were submitted since the last clear() and have not
\* ended: work items in the queue and tasks a pool worker runs.
InFlight(k) ==
  Cardinality({i \in DOMAIN queue : queue[i].key = k /\ queue[i].live})
  + Cardinality({w \in Workers : wlive[w] /\ tkey[w] = k /\ pc[w] # "idle"})
\* The step submits a fetch of key k.
Submits(k) == Len(queue') > Len(queue) /\ queue'[Len(queue')].key = k

C26_SimplifyBounded ==
  (/\ call.fn = "simplify_points"
   /\ call.zoom >= GEOM_SIMPLIFY_ZOOM
   /\ Len(call.given) > MAX_GEOM_POINTS) =>
    /\ Len(call.out) <= MAX_GEOM_POINTS
    /\ call.out[1] = call.given[1]
    /\ call.out[Len(call.out)] = call.given[Len(call.given)]
    /\ call.points = call.given

====
